---- MODULE Spec2Model ----
(***************************************************************************)
(* B+ tree of src/include/BPlusTree.h and src/include/Node.h.              *)
(*                                                                         *)
(* The heap is a function from node identifiers (addresses) to node        *)
(* records; 0 is nullptr.  Indices are 0-based as in the C++ code; a       *)
(* sequence element with C++ index i is element i+1 of the TLA+ sequence.  *)
(* keys, values and children hold the slots in use (keys and values        *)
(* 0..numKeys-1, children 0..numKeys): the vectors are pre-sized, numKeys  *)
(* says how much of them counts, and the code never moves the content of   *)
(* a slot beyond that into a slot in use.                                  *)
(***************************************************************************)
EXTENDS Integers, Sequences, FiniteSets, TLC

\* Keys offered to insert/remove are 1..MaxKey.
MaxKey == 6

Keys == 1..MaxKey

\* Values offered to insert.
Vals == {"a", "b"}

\* Orders the tree is constructed with (all >= the minimum order).
Orders == {3, 4, 5}

\* The abstract map's "no entry".
NoVal == "none"

VARIABLES
    order,   \* BPlusTree::order
    root,    \* BPlusTree::root (0 = nullptr)
    nodes,   \* the heap: live node address -> node record
    model,   \* abstract key -> value map driven by the same calls
    last     \* the last call: its name, whether its key was in the abstract
             \* map when it was made, and what it returned (insert is void: TRUE)

vars == <<order, root, nodes, model, last>>

maxKeys == order - 1

minKeys == (order + 1) \div 2 - 1

----------------------------------------------------------------------------
\* Node.h

numKeys(n) == Len(n.keys)

LeafNode ==
    [type |-> "LEAF", keys |-> <<>>, values |-> <<>>, children |-> <<>>,
     parent |-> 0, next |-> 0, prev |-> 0]

InternalNode ==
    [type |-> "INTERNAL", keys |-> <<>>, values |-> <<>>,
     children |-> <<>>,
     parent |-> 0, next |-> 0, prev |-> 0]

isLeaf(n) == n.type = "LEAF"

isInternal(n) == n.type = "INTERNAL"

\* Mutant of isFull: a node counts as full one key too late.
isFullLate(n) == numKeys(n) > maxKeys + 1

isFull(n) == numKeys(n) > maxKeys

\* Mutant of isUnderflow: a node one key short of minKeys is let through.
isUnderflowLate(n) == numKeys(n) < minKeys - 1

isUnderflow(n) == numKeys(n) < minKeys

\* s with x inserted so that it gets C++ index pos
InsertSeq(s, pos, x) == SubSeq(s, 1, pos) \o <<x>> \o SubSeq(s, pos + 1, Len(s))

\* s without the element at C++ index pos
RemoveSeq(s, pos) == SubSeq(s, 1, pos) \o SubSeq(s, pos + 2, Len(s))

\* Mutant of findKeyPositionLoop: no test for equality, so the position of a
\* key that is present is the one after it.
RECURSIVE findKeyPositionLoopNoEq(_, _, _, _, _)
findKeyPositionLoopNoEq(n, key, left, right, result) ==
    IF left <= right
    THEN LET mid == left + (right - left) \div 2
         IN  IF n.keys[mid + 1] <= key
             THEN findKeyPositionLoopNoEq(n, key, mid + 1, right, result)
             ELSE findKeyPositionLoopNoEq(n, key, left, mid - 1, mid)
    ELSE result

RECURSIVE findKeyPositionLoop(_, _, _, _, _)
findKeyPositionLoop(n, key, left, right, result) ==
    IF left <= right
    THEN LET mid == left + (right - left) \div 2
         IN  IF n.keys[mid + 1] = key THEN mid
             ELSE IF n.keys[mid + 1] < key
                  THEN findKeyPositionLoop(n, key, mid + 1, right, result)
                  ELSE findKeyPositionLoop(n, key, left, mid - 1, mid)
    ELSE result

findKeyPosition(n, key) == findKeyPositionLoop(n, key, 0, numKeys(n) - 1, numKeys(n))

insertKeyAt(n, pos, key) == [n EXCEPT !.keys = InsertSeq(@, pos, key)]

removeKeyAt(n, pos) == [n EXCEPT !.keys = RemoveSeq(@, pos)]

\* Called after insertKeyAt, so numChildren counts the slot being added:
\* slots pos..numChildren-1 move up by one and slot pos takes the child.
\* (child->parent is set by the caller of this operator, on the heap.)
insertChildAt(n, pos, child) ==
    LET numChildren == numKeys(n) + 1
    IN  [n EXCEPT !.children =
            SubSeq(@, 1, pos) \o <<child>> \o SubSeq(@, pos + 1, numChildren - 1)]

\* Called before removeKeyAt: slots pos+1..numChildren-1 move down by one
\* and slot numChildren-1 becomes nullptr.
removeChildAt(n, pos) ==
    LET numChildren == numKeys(n) + 1
    IN  [n EXCEPT !.children = SubSeq(@, 1, pos) \o SubSeq(@, pos + 2, numChildren)]

RECURSIVE findChildIndexLoop(_, _, _)
findChildIndexLoop(n, key, i) ==
    IF i < numKeys(n) /\ key >= n.keys[i + 1]
    THEN findChildIndexLoop(n, key, i + 1)
    ELSE i

\* Mutant of findChildIndex: the comparison is key > keys[i], so a key equal
\* to a separator is sent to the left child.
RECURSIVE findChildIndexStrictLoop(_, _, _)
findChildIndexStrictLoop(n, key, i) ==
    IF i < numKeys(n) /\ key > n.keys[i + 1]
    THEN findChildIndexStrictLoop(n, key, i + 1)
    ELSE i

findChildIndexStrict(n, key) == findChildIndexStrictLoop(n, key, 0)

findChildIndex(n, key) == findChildIndexLoop(n, key, 0)

\* Mutant of insertAt: the value is stored behind the values in use instead
\* of at pos.
insertAtAppendValue(n, pos, key, value) ==
    [n EXCEPT !.keys = InsertSeq(@, pos, key), !.values = Append(@, value)]

insertAt(n, pos, key, value) ==
    [n EXCEPT !.keys = InsertSeq(@, pos, key), !.values = InsertSeq(@, pos, value)]

removeAt(n, pos) ==
    [n EXCEPT !.keys = RemoveSeq(@, pos), !.values = RemoveSeq(@, pos)]

\* [found, value]; value is meaningful only when found
findValue(n, key) ==
    IF \E i \in 1..numKeys(n) : n.keys[i] = key
    THEN LET i == CHOOSE j \in 1..numKeys(n) :
                      n.keys[j] = key /\ \A l \in 1..(j - 1) : n.keys[l] # key
         IN  [found |-> TRUE, value |-> n.values[i]]
    ELSE [found |-> FALSE, value |-> NoVal]

----------------------------------------------------------------------------
\* BPlusTree.h: a tree state h is [root, nodes]

\* heap without the deleted node
Delete(ns, id) == [x \in DOMAIN ns \ {id} |-> ns[x]]

\* operator new: the lowest address not in use
NewId(ns) == CHOOSE i \in 1..(Cardinality(DOMAIN ns) + 1) :
                 i \notin DOMAIN ns /\ \A j \in 1..(i - 1) : j \in DOMAIN ns

RECURSIVE findLeafFrom(_, _, _)
findLeafFrom(h, current, key) ==
    IF current # 0 /\ isInternal(h.nodes[current])
    THEN LET index == findChildIndex(h.nodes[current], key)
         IN  findLeafFrom(h, h.nodes[current].children[index + 1], key)
    ELSE current

findLeaf(h, key) == findLeafFrom(h, h.root, key)

search(h, key) ==
    IF h.root = 0 THEN [found |-> FALSE, value |-> NoVal]
    ELSE findValue(h.nodes[findLeaf(h, key)], key)

\* Mutant of splitPoint: the half rounded up.
splitPointUpper == (maxKeys + 2) \div 2

\* the split point of splitLeaf and splitInternal
splitPoint == (maxKeys + 1) \div 2

RECURSIVE insertIntoParent(_, _, _, _), splitInternal(_, _)

\* Mutant of splitInternal: the children moved to the new node keep their
\* parent reference.
splitInternalNoReparent(h, node) ==
    LET n == h.nodes[node]
        newNode == NewId(h.nodes)
        numOriginalChildren == numKeys(n) + 1
        promoteKey == n.keys[splitPoint + 1]
        newRec == [InternalNode EXCEPT
                     !.keys = SubSeq(n.keys, splitPoint + 2, numKeys(n)),
                     !.children = SubSeq(n.children, splitPoint + 2, numOriginalChildren)]
        nodeRec == [n EXCEPT
                     !.keys = SubSeq(@, 1, splitPoint),
                     !.children = SubSeq(@, 1, splitPoint + 1)]
        ns == [id \in DOMAIN h.nodes \cup {newNode} |->
                 IF id = newNode THEN newRec
                 ELSE IF id = node THEN nodeRec
                 ELSE h.nodes[id]]
    IN  insertIntoParent([h EXCEPT !.nodes = ns], node, promoteKey, newNode)

splitInternal(h, node) ==
    LET n == h.nodes[node]
        newNode == NewId(h.nodes)
        numOriginalChildren == numKeys(n) + 1
        promoteKey == n.keys[splitPoint + 1]
        movedIdx == (splitPoint + 1)..(numOriginalChildren - 1)
        moved == {n.children[i + 1] : i \in movedIdx} \ {0}
        newRec == [InternalNode EXCEPT
                     !.keys = SubSeq(n.keys, splitPoint + 2, numKeys(n)),
                     !.children = SubSeq(n.children, splitPoint + 2, numOriginalChildren)]
        nodeRec == [n EXCEPT
                     !.keys = SubSeq(@, 1, splitPoint),
                     !.children = SubSeq(@, 1, splitPoint + 1)]
        ns == [id \in DOMAIN h.nodes \cup {newNode} |->
                 IF id = newNode THEN newRec
                 ELSE IF id = node THEN nodeRec
                 ELSE IF id \in moved THEN [h.nodes[id] EXCEPT !.parent = newNode]
                 ELSE h.nodes[id]]
    IN  insertIntoParent([h EXCEPT !.nodes = ns], node, promoteKey, newNode)

insertIntoParent(h, left, key, right) ==
    IF h.nodes[left].parent = 0
    THEN LET newRoot == NewId(h.nodes)
             rec == [InternalNode EXCEPT
                       !.keys = <<key>>,
                       !.children = <<left, right>>]
         IN  [root  |-> newRoot,
              nodes |-> [id \in DOMAIN h.nodes \cup {newRoot} |->
                           IF id = newRoot THEN rec
                           ELSE IF id \in {left, right}
                                THEN [h.nodes[id] EXCEPT !.parent = newRoot]
                                ELSE h.nodes[id]]]
    ELSE LET parent == h.nodes[left].parent
             pos == findKeyPosition(h.nodes[parent], key)
             p1 == insertKeyAt(h.nodes[parent], pos, key)
             p2 == insertChildAt(p1, pos + 1, right)
             h2 == [h EXCEPT !.nodes = [@ EXCEPT ![parent] = p2,
                                                 ![right].parent = parent]]
         IN  IF isFull(p2) THEN splitInternal(h2, parent) ELSE h2

\* Mutant of splitLeaf: the prev link of the old next leaf is not redirected
\* to the new leaf.
splitLeafNoBackLink(h, leaf) ==
    LET l == h.nodes[leaf]
        newLeaf == NewId(h.nodes)
        newRec == [LeafNode EXCEPT
                     !.keys = SubSeq(l.keys, splitPoint + 1, numKeys(l)),
                     !.values = SubSeq(l.values, splitPoint + 1, numKeys(l)),
                     !.next = l.next,
                     !.prev = leaf]
        leafRec == [l EXCEPT
                     !.keys = SubSeq(@, 1, splitPoint),
                     !.values = SubSeq(@, 1, splitPoint),
                     !.next = newLeaf]
        ns == [id \in DOMAIN h.nodes \cup {newLeaf} |->
                 IF id = newLeaf THEN newRec
                 ELSE IF id = leaf THEN leafRec
                 ELSE h.nodes[id]]
    IN  insertIntoParent([h EXCEPT !.nodes = ns], leaf, newRec.keys[1], newLeaf)

splitLeaf(h, leaf) ==
    LET l == h.nodes[leaf]
        newLeaf == NewId(h.nodes)
        newRec == [LeafNode EXCEPT
                     !.keys = SubSeq(l.keys, splitPoint + 1, numKeys(l)),
                     !.values = SubSeq(l.values, splitPoint + 1, numKeys(l)),
                     !.next = l.next,
                     !.prev = leaf]
        leafRec == [l EXCEPT
                     !.keys = SubSeq(@, 1, splitPoint),
                     !.values = SubSeq(@, 1, splitPoint),
                     !.next = newLeaf]
        ns == [id \in DOMAIN h.nodes \cup {newLeaf} |->
                 IF id = newLeaf THEN newRec
                 ELSE IF id = leaf THEN leafRec
                 ELSE IF id = l.next THEN [h.nodes[id] EXCEPT !.prev = newLeaf]
                 ELSE h.nodes[id]]
        promoteKey == newRec.keys[1]
    IN  insertIntoParent([h EXCEPT !.nodes = ns], leaf, promoteKey, newLeaf)

\* Mutant of insert: no check for a key that is already present.
insertNoDuplicateCheck(h, key, value) ==
    IF h.root = 0
    THEN LET r == NewId(h.nodes)
         IN  [root |-> r, nodes |-> (r :> insertAt(LeafNode, 0, key, value)) @@ h.nodes]
    ELSE LET leaf == findLeaf(h, key)
             l2 == insertAt(h.nodes[leaf], findKeyPosition(h.nodes[leaf], key), key, value)
             h2 == [h EXCEPT !.nodes[leaf] = l2]
         IN  IF isFull(l2) THEN splitLeaf(h2, leaf) ELSE h2

insert(h, key, value) ==
    IF h.root = 0
    THEN LET r == NewId(h.nodes)
         IN  [root |-> r, nodes |-> (r :> insertAt(LeafNode, 0, key, value)) @@ h.nodes]
    ELSE LET leaf == findLeaf(h, key)
             l == h.nodes[leaf]
             pos == findKeyPosition(l, key)
         IN  IF pos < numKeys(l) /\ l.keys[pos + 1] = key
             THEN [h EXCEPT !.nodes[leaf].values[pos + 1] = value]
             ELSE LET l2 == insertAt(l, pos, key, value)
                      h2 == [h EXCEPT !.nodes[leaf] = l2]
                  IN  IF isFull(l2) THEN splitLeaf(h2, leaf) ELSE h2

----------------------------------------------------------------------------
\* insert when an allocation fails.  allocs is the number of `new` expressions
\* that still succeed; the next one throws std::bad_alloc.  The result is
\* [h, threw]: the heap the call leaves and whether the exception reached the
\* caller.  A deleted node leaves the heap; references to it are left as
\* they are.

RECURSIVE insertIntoParentAlloc(_, _, _, _, _), splitInternalAlloc(_, _, _)

splitInternalAlloc(h, node, allocs) ==
    IF allocs = 0
    THEN \* new throws, newNode is null: the handler only re-throws
         [h |-> h, threw |-> TRUE]
    ELSE LET n == h.nodes[node]
             newNode == NewId(h.nodes)
             numOriginalChildren == numKeys(n) + 1
             promoteKey == n.keys[splitPoint + 1]
             movedIdx == (splitPoint + 1)..(numOriginalChildren - 1)
             moved == {n.children[i + 1] : i \in movedIdx} \ {0}
             newRec == [InternalNode EXCEPT
                          !.keys = SubSeq(n.keys, splitPoint + 2, numKeys(n)),
                          !.children = SubSeq(n.children, splitPoint + 2, numOriginalChildren)]
             nodeRec == [n EXCEPT
                          !.keys = SubSeq(@, 1, splitPoint),
                          !.children = SubSeq(@, 1, splitPoint + 1)]
             ns == [id \in DOMAIN h.nodes \cup {newNode} |->
                      IF id = newNode THEN newRec
                      ELSE IF id = node THEN nodeRec
                      ELSE IF id \in moved THEN [h.nodes[id] EXCEPT !.parent = newNode]
                      ELSE h.nodes[id]]
             r == insertIntoParentAlloc([h EXCEPT !.nodes = ns], node, promoteKey,
                                        newNode, allocs - 1)
             \* the handler: the children of newNode go back to node, numKeys
             \* is set back (the keys past the split point were never
             \* overwritten), newNode is deleted
             back == {r.h.nodes[newNode].children[i] :
                        i \in 1..(numKeys(r.h.nodes[newNode]) + 1)} \ {0}
             restored == [id \in DOMAIN r.h.nodes |->
                            IF id = node
                            THEN [r.h.nodes[id] EXCEPT !.keys = n.keys,
                                                       !.children = n.children]
                            ELSE IF id \in back
                                 THEN [r.h.nodes[id] EXCEPT !.parent = node]
                                 ELSE r.h.nodes[id]]
         IN  IF r.threw
             THEN [h |-> [r.h EXCEPT !.nodes = Delete(restored, newNode)], threw |-> TRUE]
             ELSE r

insertIntoParentAlloc(h, left, key, right, allocs) ==
    IF h.nodes[left].parent = 0
    THEN IF allocs = 0 THEN [h |-> h, threw |-> TRUE]
         ELSE [h |-> insertIntoParent(h, left, key, right), threw |-> FALSE]
    ELSE LET parent == h.nodes[left].parent
             pos == findKeyPosition(h.nodes[parent], key)
             p1 == insertKeyAt(h.nodes[parent], pos, key)
             p2 == insertChildAt(p1, pos + 1, right)
             h2 == [h EXCEPT !.nodes = [@ EXCEPT ![parent] = p2,
                                                 ![right].parent = parent]]
         IN  IF isFull(p2) THEN splitInternalAlloc(h2, parent, allocs)
             ELSE [h |-> h2, threw |-> FALSE]

splitLeafAlloc(h, leaf, allocs) ==
    IF allocs = 0
    THEN \* new throws, newLeaf is null: delete of null, re-throw
         [h |-> h, threw |-> TRUE]
    ELSE LET l == h.nodes[leaf]
             newLeaf == NewId(h.nodes)
             newRec == [LeafNode EXCEPT
                          !.keys = SubSeq(l.keys, splitPoint + 1, numKeys(l)),
                          !.values = SubSeq(l.values, splitPoint + 1, numKeys(l)),
                          !.next = l.next,
                          !.prev = leaf]
             leafRec == [l EXCEPT
                          !.keys = SubSeq(@, 1, splitPoint),
                          !.values = SubSeq(@, 1, splitPoint),
                          !.next = newLeaf]
             ns == [id \in DOMAIN h.nodes \cup {newLeaf} |->
                      IF id = newLeaf THEN newRec
                      ELSE IF id = leaf THEN leafRec
                      ELSE IF id = l.next THEN [h.nodes[id] EXCEPT !.prev = newLeaf]
                      ELSE h.nodes[id]]
             promoteKey == newRec.keys[1]
             r == insertIntoParentAlloc([h EXCEPT !.nodes = ns], leaf, promoteKey,
                                        newLeaf, allocs - 1)
         IN  IF r.threw
             THEN [h |-> [r.h EXCEPT !.nodes = Delete(@, newLeaf)], threw |-> TRUE]
             ELSE r

insertAlloc(h, key, value, allocs) ==
    IF h.root = 0
    THEN IF allocs = 0 THEN [h |-> h, threw |-> TRUE]
         ELSE [h |-> insert(h, key, value), threw |-> FALSE]
    ELSE LET leaf == findLeaf(h, key)
             l == h.nodes[leaf]
             pos == findKeyPosition(l, key)
         IN  IF pos < numKeys(l) /\ l.keys[pos + 1] = key
             THEN [h |-> [h EXCEPT !.nodes[leaf].values[pos + 1] = value],
                   threw |-> FALSE]
             ELSE LET l2 == insertAt(l, pos, key, value)
                      h2 == [h EXCEPT !.nodes[leaf] = l2]
                  IN  IF isFull(l2) THEN splitLeafAlloc(h2, leaf, allocs)
                      ELSE [h |-> h2, threw |-> FALSE]

----------------------------------------------------------------------------
\* Deletion


\* Mutant of getNodeIndex: the search starts at the second child slot.
getNodeIndexFromOne(h, node) ==
    LET parent == h.nodes[h.nodes[node].parent]
        numChildren == numKeys(parent) + 1
        hits == {i \in 1..(numChildren - 1) : parent.children[i + 1] = node}
    IN  IF hits = {} THEN -1
        ELSE CHOOSE i \in hits : \A j \in hits : i <= j

getNodeIndex(h, node) ==
    LET parent == h.nodes[h.nodes[node].parent]
        numChildren == numKeys(parent) + 1
        hits == {i \in 0..(numChildren - 1) : parent.children[i + 1] = node}
    IN  IF hits = {} THEN -1
        ELSE CHOOSE i \in hits : \A j \in hits : i <= j

\* The four cases of redistributeNodes, on the node records: the node and
\* its sibling after the move and the separator written to the parent
\* (and, for internal nodes, the child that changes parent).

\* Mutant of borrowLeafFromLeft: the value moved is the sibling's first, not
\* the one of the key moved.
borrowLeafFromLeftFirstValue(n, sib) ==
    LET leaf2 == [n EXCEPT !.keys = <<sib.keys[numKeys(sib)]>> \o @,
                           !.values = <<sib.values[1]>> \o @]
    IN  [node    |-> leaf2,
         sibling |-> [sib EXCEPT !.keys = SubSeq(@, 1, numKeys(sib) - 1),
                                 !.values = SubSeq(@, 1, numKeys(sib) - 1)],
         sep     |-> leaf2.keys[1],
         moved   |-> 0]

borrowLeafFromLeft(n, sib) ==
    LET leaf2 == [n EXCEPT !.keys = <<sib.keys[numKeys(sib)]>> \o @,
                           !.values = <<sib.values[numKeys(sib)]>> \o @]
    IN  [node    |-> leaf2,
         sibling |-> [sib EXCEPT !.keys = SubSeq(@, 1, numKeys(sib) - 1),
                                 !.values = SubSeq(@, 1, numKeys(sib) - 1)],
         sep     |-> leaf2.keys[1],
         moved   |-> 0]

\* Mutant of borrowLeafFromRight: the separator written to the parent is the
\* key that was borrowed, not the sibling's new first key.
borrowLeafFromRightOldSep(n, sib) ==
    [node    |-> [n EXCEPT !.keys = @ \o <<sib.keys[1]>>,
                           !.values = @ \o <<sib.values[1]>>],
     sibling |-> [sib EXCEPT !.keys = SubSeq(@, 2, numKeys(sib)),
                             !.values = SubSeq(@, 2, numKeys(sib))],
     sep     |-> sib.keys[1],
     moved   |-> 0]

borrowLeafFromRight(n, sib) ==
    LET sib2 == [sib EXCEPT !.keys = SubSeq(@, 2, numKeys(sib)),
                            !.values = SubSeq(@, 2, numKeys(sib))]
    IN  [node    |-> [n EXCEPT !.keys = @ \o <<sib.keys[1]>>,
                               !.values = @ \o <<sib.values[1]>>],
         sibling |-> sib2,
         sep     |-> sib2.keys[1],
         moved   |-> 0]

borrowInternalFromLeft(n, sib, parentKey) ==
    LET keys2 == <<parentKey>> \o n.keys
        numChildren == Len(keys2)
        borrowed == sib.children[numKeys(sib) + 1]
    IN  [node    |-> [n EXCEPT !.keys = keys2,
                               !.children = <<borrowed>> \o SubSeq(@, 1, numChildren)],
         sibling |-> [sib EXCEPT !.keys = SubSeq(@, 1, numKeys(sib) - 1),
                                 !.children = SubSeq(@, 1, numKeys(sib))],
         sep     |-> sib.keys[numKeys(sib)],
         moved   |-> borrowed]

borrowInternalFromRight(n, sib, parentKey) ==
    LET keys2 == n.keys \o <<parentKey>>
        borrowed == sib.children[1]
        numSiblingChildren == numKeys(sib) + 1
    IN  [node    |-> [n EXCEPT !.keys = keys2,
                               !.children = SubSeq(@, 1, Len(keys2)) \o <<borrowed>>],
         sibling |-> [sib EXCEPT !.keys = SubSeq(@, 2, numKeys(sib)),
                                 !.children = SubSeq(@, 2, numSiblingChildren)],
         sep     |-> sib.keys[1],
         moved   |-> borrowed]

redistributeNodes(h, node, sibling, parentIndex, isLeftSibling) ==
    LET parent == h.nodes[node].parent
        p == h.nodes[parent]
        n == h.nodes[node]
        sib == h.nodes[sibling]
        parentKey == p.keys[parentIndex + 1]
        r == IF isLeaf(n)
             THEN IF isLeftSibling THEN borrowLeafFromLeft(n, sib)
                                   ELSE borrowLeafFromRight(n, sib)
             ELSE IF isLeftSibling THEN borrowInternalFromLeft(n, sib, parentKey)
                                   ELSE borrowInternalFromRight(n, sib, parentKey)
    IN  [h EXCEPT !.nodes =
            [id \in DOMAIN @ |->
                IF id = node THEN r.node
                ELSE IF id = sibling THEN r.sibling
                ELSE IF id = parent THEN [p EXCEPT !.keys[parentIndex + 1] = r.sep]
                ELSE IF id = r.moved THEN [@[id] EXCEPT !.parent = node]
                ELSE @[id]]]

\* Mutant of mergeLeaves: the right leaf's entries are not moved over before
\* it is deleted.
mergeLeavesDropRight(l, r) == [l EXCEPT !.next = r.next]

\* mergeNodes, leaf case: the left leaf after absorbing the right one
mergeLeaves(l, r) ==
    [l EXCEPT !.keys = @ \o r.keys,
              !.values = @ \o r.values,
              !.next = r.next]

\* Mutant of mergeInternals: the separator is not pulled down.
mergeInternalsNoSeparator(l, r, parentKey) ==
    LET originalLeftChildren == numKeys(l) + 1
        numRightChildren == numKeys(r) + 1
    IN  [l EXCEPT !.keys = @ \o r.keys,
                  !.children = SubSeq(@, 1, originalLeftChildren)
                               \o SubSeq(r.children, 1, numRightChildren)]

\* mergeNodes, internal case: the left node after pulling the separator down
\* and absorbing the right node
mergeInternals(l, r, parentKey) ==
    LET originalLeftChildren == numKeys(l) + 1
        numRightChildren == numKeys(r) + 1
    IN  [l EXCEPT !.keys = @ \o <<parentKey>> \o r.keys,
                  !.children = SubSeq(@, 1, originalLeftChildren)
                               \o SubSeq(r.children, 1, numRightChildren)]

\* Mutant of collapseRoot: a root left without keys stays the root.
collapseRootNever(h, node) == h

\* deleteEntry on the root: an internal root left without keys hands the tree
\* to its first child, a leaf root left without keys leaves the tree empty
collapseRoot(h, node) ==
    IF numKeys(h.nodes[node]) = 0
    THEN IF isInternal(h.nodes[node])
         THEN LET newRoot == h.nodes[node].children[1]
              IN  [root  |-> newRoot,
                   nodes |-> Delete([h.nodes EXCEPT ![newRoot].parent = 0], node)]
         ELSE [root |-> 0, nodes |-> Delete(h.nodes, node)]
    ELSE h

\* mergeNodes up to the parent's underflow check: right is absorbed into
\* left and deleted, and the parent loses its child slot and the separator
mergeStep(h, left, right, parentIndex) ==
    LET l == h.nodes[left]
        r == h.nodes[right]
        parent == l.parent
        p == h.nodes[parent]
        l2 == IF isLeaf(l) THEN mergeLeaves(l, r)
              ELSE mergeInternals(l, r, p.keys[parentIndex + 1])
        relinked == IF isLeaf(l) THEN {r.next} \ {0} ELSE {}
        reparented == IF isLeaf(l) THEN {}
                      ELSE {r.children[i] : i \in 1..(numKeys(r) + 1)} \ {0}
        p2 == removeKeyAt(removeChildAt(p, parentIndex + 1), parentIndex)
        ns == Delete([id \in DOMAIN h.nodes |->
                        IF id = left THEN l2
                        ELSE IF id = parent THEN p2
                        ELSE IF id \in relinked THEN [h.nodes[id] EXCEPT !.prev = left]
                        ELSE IF id \in reparented THEN [h.nodes[id] EXCEPT !.parent = left]
                        ELSE h.nodes[id]], right)
    IN  [h EXCEPT !.nodes = ns]

RECURSIVE deleteEntry(_, _), mergeNodes(_, _, _, _), rebalance(_, _)

mergeNodes(h, left, right, parentIndex) ==
    LET parent == h.nodes[left].parent
        h2 == mergeStep(h, left, right, parentIndex)
    IN  IF isUnderflow(h2.nodes[parent]) THEN deleteEntry(h2, parent) ELSE h2

\* Mutant of rebalance: the right sibling is asked before the left one.
rebalanceRightFirst(h, node) ==
    LET parent == h.nodes[node].parent
        p == h.nodes[parent]
        nodeIndex == getNodeIndex(h, node)
        leftSibling == p.children[nodeIndex]
        rightSibling == p.children[nodeIndex + 2]
    IN  IF nodeIndex = -1 THEN h
        ELSE IF nodeIndex < numKeys(p) /\ numKeys(h.nodes[rightSibling]) > minKeys
        THEN redistributeNodes(h, node, rightSibling, nodeIndex, FALSE)
        ELSE IF nodeIndex > 0 /\ numKeys(h.nodes[leftSibling]) > minKeys
        THEN redistributeNodes(h, node, leftSibling, nodeIndex - 1, TRUE)
        ELSE IF nodeIndex > 0
        THEN mergeNodes(h, leftSibling, node, nodeIndex - 1)
        ELSE mergeNodes(h, node, rightSibling, nodeIndex)

\* deleteEntry on a node that is not the root: borrow from the left sibling,
\* else from the right sibling, else merge
rebalance(h, node) ==
    LET parent == h.nodes[node].parent
        p == h.nodes[parent]
        nodeIndex == getNodeIndex(h, node)
        leftSibling == p.children[nodeIndex]
        rightSibling == p.children[nodeIndex + 2]
    IN  IF nodeIndex = -1 THEN h
        ELSE IF nodeIndex > 0 /\ numKeys(h.nodes[leftSibling]) > minKeys
        THEN redistributeNodes(h, node, leftSibling, nodeIndex - 1, TRUE)
        ELSE IF nodeIndex < numKeys(p) /\ numKeys(h.nodes[rightSibling]) > minKeys
        THEN redistributeNodes(h, node, rightSibling, nodeIndex, FALSE)
        ELSE IF nodeIndex > 0
        THEN mergeNodes(h, leftSibling, node, nodeIndex - 1)
        ELSE mergeNodes(h, node, rightSibling, nodeIndex)

\* Mutant of deleteEntry: an internal node left without keys is replaced by
\* its only child wherever it is, not only at the root.
deleteEntrySplice(h, node) ==
    IF node = h.root THEN collapseRoot(h, node)
    ELSE IF isInternal(h.nodes[node]) /\ numKeys(h.nodes[node]) = 0
    THEN LET parent == h.nodes[node].parent
             only == h.nodes[node].children[1]
             p2 == [h.nodes[parent] EXCEPT
                      !.children = [s \in DOMAIN @ |-> IF @[s] = node THEN only ELSE @[s]]]
         IN  [h EXCEPT !.nodes = Delete([@ EXCEPT ![parent] = p2,
                                                  ![only].parent = parent], node)]
    ELSE rebalance(h, node)

deleteEntry(h, node) ==
    IF node = h.root THEN collapseRoot(h, node) ELSE rebalance(h, node)

\* Mutant of remove: the entry is located with findKeyPosition and removed
\* without comparing its key.
removeAtPosition(h, key) ==
    IF h.root = 0 THEN [h |-> h, ret |-> FALSE]
    ELSE LET leaf == findLeaf(h, key)
             l == h.nodes[leaf]
             pos == findKeyPosition(l, key)
         IN  IF pos >= numKeys(l) THEN [h |-> h, ret |-> FALSE]
             ELSE LET l2 == removeAt(l, pos)
                      h2 == [h EXCEPT !.nodes[leaf] = l2]
                  IN  IF leaf = h.root
                      THEN IF numKeys(l2) = 0
                           THEN [h |-> [root |-> 0, nodes |-> Delete(h2.nodes, leaf)],
                                 ret |-> TRUE]
                           ELSE [h |-> h2, ret |-> TRUE]
                      ELSE IF isUnderflow(l2)
                           THEN [h |-> deleteEntry(h2, leaf), ret |-> TRUE]
                           ELSE [h |-> h2, ret |-> TRUE]

\* Mutant of remove: a root leaf that lost its last key is kept.
removeKeepEmptyRoot(h, key) ==
    IF h.root = 0 THEN [h |-> h, ret |-> FALSE]
    ELSE LET leaf == findLeaf(h, key)
             l == h.nodes[leaf]
             hits == {i \in 0..(numKeys(l) - 1) : l.keys[i + 1] = key}
             pos == IF hits = {} THEN -1
                    ELSE CHOOSE i \in hits : \A j \in hits : i <= j
         IN  IF pos = -1 THEN [h |-> h, ret |-> FALSE]
             ELSE LET l2 == removeAt(l, pos)
                      h2 == [h EXCEPT !.nodes[leaf] = l2]
                  IN  IF leaf = h.root THEN [h |-> h2, ret |-> TRUE]
                      ELSE IF isUnderflow(l2)
                           THEN [h |-> deleteEntry(h2, leaf), ret |-> TRUE]
                           ELSE [h |-> h2, ret |-> TRUE]

\* [h, ret]: the tree after the call and the value returned
remove(h, key) ==
    IF h.root = 0 THEN [h |-> h, ret |-> FALSE]
    ELSE LET leaf == findLeaf(h, key)
             l == h.nodes[leaf]
             hits == {i \in 0..(numKeys(l) - 1) : l.keys[i + 1] = key}
             pos == IF hits = {} THEN -1
                    ELSE CHOOSE i \in hits : \A j \in hits : i <= j
         IN  IF leaf = 0 THEN [h |-> h, ret |-> FALSE]
             ELSE IF pos = -1 THEN [h |-> h, ret |-> FALSE]
             ELSE LET l2 == removeAt(l, pos)
                      h2 == [h EXCEPT !.nodes[leaf] = l2]
                  IN  IF leaf = h.root
                      THEN IF numKeys(l2) = 0
                           THEN [h |-> [root |-> 0, nodes |-> Delete(h2.nodes, leaf)],
                                 ret |-> TRUE]
                           ELSE [h |-> h2, ret |-> TRUE]
                      ELSE IF isUnderflow(l2)
                           THEN [h |-> deleteEntry(h2, leaf), ret |-> TRUE]
                           ELSE [h |-> h2, ret |-> TRUE]

----------------------------------------------------------------------------
\* Utility functions

RECURSIVE heightFrom(_, _, _)
heightFrom(h, current, n) ==
    IF isInternal(h.nodes[current])
    THEN heightFrom(h, h.nodes[current].children[1], n + 1)
    ELSE n

height(h) == IF h.root = 0 THEN 0 ELSE heightFrom(h, h.root, 1)

isEmpty(h) == h.root = 0

\* validateNode: [ok, leafLevel], leafLevel being the reference parameter
RECURSIVE validateNode(_, _, _, _), validateChildren(_, _, _, _, _)

validateNode(h, node, level, leafLevel) ==
    IF node = 0 THEN [ok |-> TRUE, leafLevel |-> leafLevel]
    ELSE LET n == h.nodes[node]
         IN  IF node # h.root /\ (numKeys(n) < minKeys \/ numKeys(n) > maxKeys)
             THEN [ok |-> FALSE, leafLevel |-> leafLevel]
             ELSE IF \E i \in 1..(numKeys(n) - 1) : n.keys[i] >= n.keys[i + 1]
             THEN [ok |-> FALSE, leafLevel |-> leafLevel]
             ELSE IF isLeaf(n)
             THEN IF leafLevel = -1 THEN [ok |-> TRUE, leafLevel |-> level]
                  ELSE [ok |-> leafLevel = level, leafLevel |-> leafLevel]
             ELSE validateChildren(h, node, 0, level, leafLevel)

validateChildren(h, node, i, level, leafLevel) ==
    IF i >= numKeys(h.nodes[node]) + 1 THEN [ok |-> TRUE, leafLevel |-> leafLevel]
    ELSE LET r == validateNode(h, h.nodes[node].children[i + 1], level + 1, leafLevel)
         IN  IF ~r.ok THEN r
             ELSE validateChildren(h, node, i + 1, level, r.leafLevel)

validate(h) == IF h.root = 0 THEN TRUE ELSE validateNode(h, h.root, 0, -1).ok

\* Mutant of rangeScan: the upper bound is taken as exclusive.
RECURSIVE rangeScanExclusive(_, _, _, _, _, _)
rangeScanExclusive(h, leaf, i, start, end, result) ==
    IF leaf = 0 THEN result
    ELSE LET l == h.nodes[leaf]
         IN  IF i >= numKeys(l) THEN rangeScanExclusive(h, l.next, 0, start, end, result)
             ELSE IF l.keys[i + 1] >= start /\ l.keys[i + 1] < end
             THEN rangeScanExclusive(h, leaf, i + 1, start, end,
                                     Append(result, <<l.keys[i + 1], l.values[i + 1]>>))
             ELSE IF l.keys[i + 1] >= end THEN result
             ELSE rangeScanExclusive(h, leaf, i + 1, start, end, result)

\* rangeQuery: the scan from slot i of a leaf, result being the pairs
\* collected so far
RECURSIVE rangeScan(_, _, _, _, _, _)
rangeScan(h, leaf, i, start, end, result) ==
    IF leaf = 0 THEN result
    ELSE LET l == h.nodes[leaf]
         IN  IF i >= numKeys(l) THEN rangeScan(h, l.next, 0, start, end, result)
             ELSE IF l.keys[i + 1] >= start /\ l.keys[i + 1] <= end
             THEN rangeScan(h, leaf, i + 1, start, end,
                            Append(result, <<l.keys[i + 1], l.values[i + 1]>>))
             ELSE IF l.keys[i + 1] > end THEN result
             ELSE rangeScan(h, leaf, i + 1, start, end, result)

rangeQuery(h, start, end) ==
    IF h.root = 0 THEN <<>>
    ELSE rangeScan(h, findLeaf(h, start), 0, start, end, <<>>)

----------------------------------------------------------------------------
\* Bulk loader.  An input is a sequence of <<key, value>> pairs.

\* step 1: stable sort by key (an entry goes after the entries already
\* placed whose key is not greater)
RECURSIVE stableSort(_)
stableSort(entries) ==
    IF entries = <<>> THEN <<>>
    ELSE LET e == entries[Len(entries)]
             sorted == stableSort(SubSeq(entries, 1, Len(entries) - 1))
             n == Cardinality({i \in 1..Len(sorted) : sorted[i][1] <= e[1]})
         IN  SubSeq(sorted, 1, n) \o <<e>> \o SubSeq(sorted, n + 1, Len(sorted))

\* step 2: of the entries with one key, the last in input order is kept
RECURSIVE dedupKeepLast(_)
dedupKeepLast(sorted) ==
    IF Len(sorted) <= 1 THEN sorted
    ELSE IF sorted[1][1] = sorted[2][1] THEN dedupKeepLast(Tail(sorted))
    ELSE <<sorted[1]>> \o dedupKeepLast(Tail(sorted))

\* Mutant of packSizes: the final remainder is left as it falls.
RECURSIVE packSizesGreedy(_, _, _)
packSizesGreedy(n, lo, hi) ==
    IF n = 0 THEN <<>>
    ELSE IF n <= hi THEN <<n>>
    ELSE <<hi>> \o packSizesGreedy(n - hi, lo, hi)

\* the sizes of the groups n items are packed into, left to right: each
\* group takes hi items; when that would leave a final remainder below lo,
\* the group before it is left short so that the remainder reaches lo
RECURSIVE packSizes(_, _, _)
packSizes(n, lo, hi) ==
    IF n = 0 THEN <<>>
    ELSE IF n <= hi THEN <<n>>
    ELSE IF n - hi < lo THEN <<n - lo, lo>>
    ELSE <<hi>> \o packSizes(n - hi, lo, hi)

RECURSIVE sumTo(_, _)
sumTo(sizes, j) == IF j = 0 THEN 0 ELSE sizes[j] + sumTo(sizes, j - 1)

\* step 3: the leaves, chained; leaf j has address j
packLeaves(entries) ==
    LET sizes == packSizes(Len(entries), minKeys, maxKeys)
        part(j) == SubSeq(entries, sumTo(sizes, j - 1) + 1, sumTo(sizes, j))
    IN  [j \in 1..Len(sizes) |->
           [LeafNode EXCEPT
              !.keys = [i \in 1..sizes[j] |-> part(j)[i][1]],
              !.values = [i \in 1..sizes[j] |-> part(j)[i][2]],
              !.prev = j - 1,
              !.next = IF j = Len(sizes) THEN 0 ELSE j + 1]]

\* step 4: one level of parents over a level of nodes; a level is a sequence
\* of [id, min], min being the minimal key below the node
RECURSIVE buildLevels(_, _)
buildLevels(ns, level) ==
    IF Len(level) = 1 THEN [root |-> level[1].id, nodes |-> ns]
    ELSE LET sizes == packSizes(Len(level), minKeys + 1, maxKeys + 1)
             member(j, i) == level[sumTo(sizes, j - 1) + i]
             parentOf(c) == Len(ns) + CHOOSE j \in 1..Len(sizes) :
                                \E i \in 1..sizes[j] : member(j, i).id = c
             parents == [j \in 1..Len(sizes) |->
                           [InternalNode EXCEPT
                              !.keys = [i \in 1..(sizes[j] - 1) |-> member(j, i + 1).min],
                              !.children = [i \in 1..sizes[j] |-> member(j, i).id]]]
             below == {level[i].id : i \in 1..Len(level)}
             ns2 == [id \in 1..(Len(ns) + Len(sizes)) |->
                       IF id > Len(ns) THEN parents[id - Len(ns)]
                       ELSE IF id \in below THEN [ns[id] EXCEPT !.parent = parentOf(id)]
                       ELSE ns[id]]
         IN  buildLevels(ns2, [j \in 1..Len(sizes) |->
                                 [id |-> Len(ns) + j, min |-> member(j, 1).min]])

\* Mutant of clear: the nodes of the tree are kept.
clearKeepsNodes(h) == h

\* all nodes of the tree are destroyed
clear(h) == [root |-> 0, nodes |-> <<>>]

bulkLoad(h, input) ==
    LET entries == dedupKeepLast(stableSort(input))
        leaves == packLeaves(entries)
    IN  IF entries = <<>> THEN clear(h)
        ELSE buildLevels(clear(h).nodes \o leaves,
                         [j \in 1..Len(leaves) |-> [id |-> j, min |-> leaves[j].keys[1]]])

----------------------------------------------------------------------------
\* Iterator.  A cursor is [leaf, index]; the end state is (no leaf, 0).  A
\* reverse cursor moves by retreat and ends before the first entry, which is
\* the same (no leaf, 0).

endCursor == [leaf |-> 0, index |-> 0]

RECURSIVE firstLeaf(_, _)
firstLeaf(h, node) ==
    IF isInternal(h.nodes[node]) THEN firstLeaf(h, h.nodes[node].children[1])
    ELSE node

RECURSIVE lastLeaf(_, _)
lastLeaf(h, node) ==
    IF isInternal(h.nodes[node])
    THEN lastLeaf(h, h.nodes[node].children[numKeys(h.nodes[node]) + 1])
    ELSE node

begin(h) ==
    IF h.root = 0 THEN endCursor
    ELSE [leaf |-> firstLeaf(h, h.root), index |-> 0]

advance(h, c) ==
    LET l == h.nodes[c.leaf]
    IN  IF c.index + 1 < numKeys(l) THEN [c EXCEPT !.index = @ + 1]
        ELSE IF l.next # 0 THEN [leaf |-> l.next, index |-> 0]
        ELSE endCursor

retreat(h, c) ==
    IF c = endCursor
    THEN IF h.root = 0 THEN endCursor
         ELSE LET l == lastLeaf(h, h.root)
              IN  [leaf |-> l, index |-> numKeys(h.nodes[l]) - 1]
    ELSE LET l == h.nodes[c.leaf]
         IN  IF c.index > 0 THEN [c EXCEPT !.index = @ - 1]
             ELSE IF l.prev # 0
                  THEN [leaf |-> l.prev, index |-> numKeys(h.nodes[l.prev]) - 1]
                  ELSE endCursor

rbegin(h) == retreat(h, endCursor)

dereference(h, c) == <<h.nodes[c.leaf].keys[c.index + 1], h.nodes[c.leaf].values[c.index + 1]>>

\* for (it = begin(); it != end(); ++it): the pairs met, at most steps of them
RECURSIVE forward(_, _, _)
forward(h, c, steps) ==
    IF c = endCursor \/ steps = 0 THEN <<>>
    ELSE <<dereference(h, c)>> \o forward(h, advance(h, c), steps - 1)

\* for (it = rbegin(); it != rend(); ++it)
RECURSIVE backward(_, _, _)
backward(h, c, steps) ==
    IF c = endCursor \/ steps = 0 THEN <<>>
    ELSE <<dereference(h, c)>> \o backward(h, retreat(h, c), steps - 1)

----------------------------------------------------------------------------
\* The program: a tree is constructed empty with some order, then insert and
\* remove are called in any sequence.

tree == [root |-> root, nodes |-> nodes]

\* Addresses are only ever compared for equality, so a state stands for all
\* its renamings: after a call the heap is stored with its nodes renamed in
\* pre-order from the root (live nodes the root does not reach follow, in
\* address order).  The address of a freed node is stored as Freed.
Freed == 0 - 1

RECURSIVE Preorder(_, _), PreorderFrom(_, _, _)

Preorder(ns, id) ==
    IF isLeaf(ns[id]) THEN <<id>>
    ELSE <<id>> \o PreorderFrom(ns, id, 0)

PreorderFrom(ns, id, i) ==
    IF i > numKeys(ns[id]) THEN <<>>
    ELSE Preorder(ns, ns[id].children[i + 1]) \o PreorderFrom(ns, id, i + 1)

RECURSIVE Ascending(_)
Ascending(S) ==
    IF S = {} THEN <<>>
    ELSE LET m == CHOOSE x \in S : \A y \in S : x <= y
         IN  <<m>> \o Ascending(S \ {m})

Canon(h) ==
    LET reach == IF h.root = 0 THEN <<>> ELSE Preorder(h.nodes, h.root)
        rest == DOMAIN h.nodes \ {reach[i] : i \in 1..Len(reach)}
        ord == reach \o Ascending(rest)
        ren(id) == IF id = 0 THEN 0
                   ELSE IF id \in DOMAIN h.nodes
                        THEN CHOOSE i \in 1..Len(ord) : ord[i] = id
                        ELSE Freed
    IN  [root  |-> ren(h.root),
         nodes |-> [i \in 1..Len(ord) |->
                      LET n == h.nodes[ord[i]]
                      IN  [n EXCEPT !.parent = ren(@),
                                    !.next = ren(@),
                                    !.prev = ren(@),
                                    !.children = [s \in DOMAIN @ |-> ren(@[s])]]]]

\* the entries a tree stores, read from the abstract map's side
Stored(k) == model[k] # NoVal

Init ==
    /\ order \in Orders
    /\ root = 0
    /\ nodes = <<>>
    /\ model = [k \in Keys |-> NoVal]
    /\ last = [op |-> "new", hit |-> FALSE, ret |-> FALSE]

Insert(k, v) ==
    LET h2 == Canon(insert(tree, k, v))
    IN  /\ root' = h2.root
        /\ nodes' = h2.nodes
        /\ model' = [model EXCEPT ![k] = v]
        /\ last' = [op |-> "insert", hit |-> Stored(k), ret |-> TRUE]
        /\ UNCHANGED order

Remove(k) ==
    LET r == remove(tree, k)
        h2 == Canon(r.h)
    IN  /\ root' = h2.root
        /\ nodes' = h2.nodes
        /\ model' = [model EXCEPT ![k] = NoVal]
        /\ last' = [op |-> "remove", hit |-> Stored(k), ret |-> r.ret]
        /\ UNCHANGED order

Next ==
    \/ \E k \in Keys, v \in Vals : Insert(k, v)
    \/ \E k \in Keys : Remove(k)

Spec == Init /\ [][Next]_vars

\* The read operations, called between the insert and remove calls.
\* Range bounds run one below and one above the keys in use; a call made
\* between two updates asks for an inverted range or for a window of three
\* keys.
QueryKeys == 0..(MaxKey + 1)

QuerySpans == {0 - 1, 2}

RangeQuery(start, end) ==
    LET r == rangeQuery(tree, start, end)
    IN  /\ last' = [op |-> "rangeQuery", hit |-> r # <<>>, ret |-> TRUE]
        /\ UNCHANGED <<order, root, nodes, model>>

NextQuery ==
    \/ Next
    \/ \E start \in QueryKeys, span \in QuerySpans : RangeQuery(start, start + span)

SpecQuery == Init /\ [][NextQuery]_vars

\* An insert during which an allocation fails.  The call may need a new
\* leaf, a new internal node per level and a new root; the failing
\* allocation is any of them.  The exception reaches the caller, and the
\* behaviour ends there with the heap the call left behind.
MaxAllocs == 2

InsertFault(k, v, allocs) ==
    LET r == insertAlloc(tree, k, v, allocs)
    IN  /\ r.threw
        /\ root' = r.h.root
        /\ nodes' = r.h.nodes
        /\ last' = [op |-> "insertFault", hit |-> Stored(k), ret |-> FALSE]
        /\ UNCHANGED <<order, model>>

NextFault ==
    \/ last.op # "insertFault" /\ Next
    \/ /\ last.op # "insertFault"
       /\ \E k \in Keys, v \in Vals, allocs \in 0..MaxAllocs : InsertFault(k, v, allocs)

SpecFault == Init /\ [][NextFault]_vars

\* Bulk loading.  Keys run up to MaxBulkKey, which gives a fourth leaf at
\* order 3 and so a second node on the parent level.  The inputs are all
\* sequences of at most three pairs over two keys (unsorted, with repeated
\* keys), the runs n, n-1, .., 1 (all with the first value), alone or
\* followed by a second pair for key 1 or key n, and the runs of the even
\* keys up to n, which leave room for inserts between the keys loaded.
MaxBulkKey == 8

BulkKeys == 1..MaxBulkKey

ShortInputs ==
    UNION {[1..n -> {1, 2} \X Vals] : n \in 0..3}

descendingRun(n) == [i \in 1..n |-> <<n + 1 - i, "a">>]

evenRun(n) == [i \in 1..(n \div 2) |-> <<2 * (n \div 2 + 1 - i), "a">>]

LongInputs ==
    UNION {{descendingRun(n),
            descendingRun(n) \o <<(<<1, "b">>)>>,
            descendingRun(n) \o <<(<<n, "b">>)>>,
            evenRun(n)} : n \in 1..MaxBulkKey}

BulkInputs == ShortInputs \cup LongInputs

\* the abstract map after upserting the pairs of an input in order
RECURSIVE upsertAll(_, _)
upsertAll(m, input) ==
    IF input = <<>> THEN m
    ELSE upsertAll([m EXCEPT ![input[1][1]] = input[1][2]], Tail(input))

InitBulk ==
    /\ order \in Orders
    /\ root = 0
    /\ nodes = <<>>
    /\ model = [k \in BulkKeys |-> NoVal]
    /\ last = [op |-> "new", hit |-> FALSE, ret |-> FALSE]

\* hit: the tree held entries when bulkLoad was called
BulkLoad(input) ==
    LET h2 == Canon(bulkLoad(tree, input))
    IN  /\ root' = h2.root
        /\ nodes' = h2.nodes
        /\ model' = upsertAll([k \in BulkKeys |-> NoVal], input)
        /\ last' = [op |-> "bulkLoad", hit |-> root # 0, ret |-> TRUE]
        /\ UNCHANGED order

\* bulkLoad is called on a new tree, on a loaded tree, or on either after
\* one insert or remove
NextBulk ==
    \/ \E input \in BulkInputs : BulkLoad(input)
    \/ last.op \in {"new", "bulkLoad"} /\ Next

SpecBulk == InitBulk /\ [][NextBulk]_vars

----------------------------------------------------------------------------
\* Observations of a tree state, used to state the properties.  They are
\* total: a reference to a node that is not live contributes nothing.

Fuel(h) == Cardinality(DOMAIN h.nodes) + 1

\* the child slots in use
KidIdx(n) == (1..(numKeys(n) + 1)) \cap DOMAIN n.children

RECURSIVE ReachFrom(_, _, _)
ReachFrom(h, id, fuel) ==
    IF id \notin DOMAIN h.nodes \/ fuel = 0 THEN {}
    ELSE {id} \cup UNION {ReachFrom(h, h.nodes[id].children[i], fuel - 1) :
                            i \in KidIdx(h.nodes[id])}

Nodes(h) == ReachFrom(h, h.root, Fuel(h))

Leaves(h) == {id \in Nodes(h) : isLeaf(h.nodes[id])}

Internals(h) == {id \in Nodes(h) : isInternal(h.nodes[id])}

KeySet(n) == {n.keys[i] : i \in 1..numKeys(n)}

SubtreeKeys(h, id) ==
    UNION {KeySet(h.nodes[l]) : l \in {x \in ReachFrom(h, id, Fuel(h)) : isLeaf(h.nodes[x])}}

RECURSIVE LeafDepths(_, _, _, _)
LeafDepths(h, id, d, fuel) ==
    IF id \notin DOMAIN h.nodes \/ fuel = 0 THEN {}
    ELSE IF isLeaf(h.nodes[id]) THEN {d}
    ELSE UNION {LeafDepths(h, h.nodes[id].children[i], d + 1, fuel - 1) :
                  i \in KidIdx(h.nodes[id])}

\* the (key, value) pairs stored in the leaves
Entries(h) ==
    UNION {{<<h.nodes[l].keys[i], h.nodes[l].values[i]>> :
              i \in (1..numKeys(h.nodes[l])) \cap DOMAIN h.nodes[l].values} :
           l \in Leaves(h)}

RECURSIVE SumKeys(_, _)
SumKeys(h, S) ==
    IF S = {} THEN 0
    ELSE LET x == CHOOSE y \in S : TRUE
         IN  numKeys(h.nodes[x]) + SumKeys(h, S \ {x})

\* the number of entries stored in the leaves
EntryCount(h) == SumKeys(h, Leaves(h))

RECURSIVE LeftmostFrom(_, _, _)
LeftmostFrom(h, id, fuel) ==
    IF id \notin DOMAIN h.nodes \/ fuel = 0 THEN 0
    ELSE IF isLeaf(h.nodes[id]) THEN id
    ELSE IF h.nodes[id].children = <<>> THEN 0
    ELSE LeftmostFrom(h, h.nodes[id].children[1], fuel - 1)

Leftmost(h) == LeftmostFrom(h, h.root, Fuel(h))

\* the leaves met by following next from a leaf
RECURSIVE ChainFrom(_, _, _)
ChainFrom(h, leaf, fuel) ==
    IF leaf \notin DOMAIN h.nodes \/ fuel = 0 THEN <<>>
    ELSE <<leaf>> \o ChainFrom(h, h.nodes[leaf].next, fuel - 1)

Chain(h) == ChainFrom(h, Leftmost(h), Fuel(h))

RECURSIVE Flatten(_)
Flatten(ss) == IF ss = <<>> THEN <<>> ELSE Head(ss) \o Flatten(Tail(ss))

\* the keys met along the chain, in the order met
ChainKeys(h) == Flatten([i \in 1..Len(Chain(h)) |-> h.nodes[Chain(h)[i]].keys])

StrictlyAscending(s) == \A i \in 1..(Len(s) - 1) : s[i] < s[i + 1]

\* what the abstract map holds
ModelEntries == {<<k, model[k]>> : k \in {x \in Keys : Stored(x)}}

----------------------------------------------------------------------------
\* Properties

\* C1: search(k) reports found with value v exactly when the abstract map
\* driven by the same insert and remove calls maps k to v, and not-found for
\* every other key.
C1_MapRefinement ==
    \A k \in Keys :
        LET r == search(tree, k)
        IN  IF Stored(k) THEN r.found /\ r.value = model[k] ELSE ~r.found

\* a three-level tree after a successful remove, with hits of both values and
\* a miss
C1_Witness ==
    /\ last.op = "remove" /\ last.ret
    /\ height(tree) = 3
    /\ \E k1, k2, k3 \in Keys :
         /\ search(tree, k1) = [found |-> TRUE, value |-> "a"]
         /\ search(tree, k2) = [found |-> TRUE, value |-> "b"]
         /\ ~search(tree, k3).found

\* C2: once a call has returned, every non-root node holds at least minKeys
\* and at most maxKeys keys.
C2_NodeOccupancy ==
    \A id \in Nodes(tree) \ {root} :
        minKeys <= numKeys(nodes[id]) /\ numKeys(nodes[id]) <= maxKeys

\* after a successful remove: a non-root internal node at the lower limit, a
\* leaf at the upper limit
C2_Witness ==
    /\ last.op = "remove" /\ last.ret
    /\ \E i \in Internals(tree) \ {root} : numKeys(nodes[i]) = minKeys
    /\ \E l \in Leaves(tree) \ {root} : numKeys(nodes[l]) = maxKeys

\* C3: every internal node has numKeys + 1 children, and for each separator
\* index i every key under children[i] is < keys[i] and every key under
\* children[i+1] is >= keys[i].
C3_SeparatorsPartition ==
    \A id \in Internals(tree) :
        LET n == nodes[id]
        IN  /\ Len(n.children) = numKeys(n) + 1
            /\ \A c \in 1..Len(n.children) : n.children[c] \in DOMAIN nodes
            /\ \A i \in 1..numKeys(n) :
                 /\ \A k \in SubtreeKeys(tree, n.children[i]) : k < n.keys[i]
                 /\ \A k \in SubtreeKeys(tree, n.children[i + 1]) : k >= n.keys[i]

\* a three-level tree after a successful remove in which an internal node
\* below the root has three children
C3_Witness ==
    /\ last.op = "remove" /\ last.ret
    /\ height(tree) = 3
    /\ \E id \in Internals(tree) \ {root} : numKeys(nodes[id]) = 2

Min(S) == CHOOSE x \in S : \A y \in S : x <= y

\* C4: each separator keys[i] equals the minimal key stored in the subtree of
\* children[i+1].
C4_SeparatorIsMinimum ==
    \A id \in Internals(tree) :
        \A i \in 1..numKeys(nodes[id]) :
            LET ks == SubtreeKeys(tree, nodes[id].children[i + 1])
            IN  ks # {} /\ nodes[id].keys[i] = Min(ks)

\* C5: all leaves are at the same depth from the root.
C5_LeavesSameDepth == Cardinality(LeafDepths(tree, root, 0, Fuel(tree))) <= 1

\* a three-level tree after a successful remove: four or more leaves, all
\* two levels below the root
C5_Witness ==
    /\ last.op = "remove" /\ last.ret
    /\ height(tree) = 3
    /\ Cardinality(Leaves(tree)) >= 4
    /\ LeafDepths(tree, root, 0, Fuel(tree)) = {2}

\* C6: the keys in use of every reachable node are strictly increasing.
C6_KeysStrictlyAscending ==
    \A id \in Nodes(tree) : StrictlyAscending(nodes[id].keys)

\* after an insert of a key that was already stored: a leaf and an internal
\* node with more than one key
C6_Witness ==
    /\ last.op = "insert" /\ last.hit
    /\ \E l \in Leaves(tree) : numKeys(nodes[l]) >= 2
    /\ \E i \in Internals(tree) : numKeys(nodes[i]) >= 2

\* C7: following next from the leftmost leaf visits every leaf exactly once
\* and yields the stored entries in strictly ascending key order; prev is the
\* inverse of next, the leftmost leaf has no prev and the rightmost no next.
C7_LeafChain ==
    root # 0 =>
        LET c == Chain(tree)
        IN  /\ Len(c) = Cardinality(Leaves(tree))
            /\ {c[i] : i \in 1..Len(c)} = Leaves(tree)
            /\ StrictlyAscending(ChainKeys(tree))
            /\ {ChainKeys(tree)[i] : i \in 1..Len(ChainKeys(tree))}
                   = {k \in Keys : Stored(k)}
            /\ nodes[c[1]].prev = 0
            /\ nodes[c[Len(c)]].next = 0
            /\ \A i \in 1..(Len(c) - 1) : nodes[c[i + 1]].prev = c[i]
            /\ \A l \in Leaves(tree) :
                 /\ nodes[l].next # 0 =>
                      nodes[l].next \in Leaves(tree) /\ nodes[nodes[l].next].prev = l
                 /\ nodes[l].prev # 0 =>
                      nodes[l].prev \in Leaves(tree) /\ nodes[nodes[l].prev].next = l

\* a chain of at least four leaves after a successful remove
C7_Witness ==
    /\ last.op = "remove" /\ last.ret
    /\ Len(Chain(tree)) >= 4
    /\ height(tree) = 3

\* whether the leaves store an entry for k
Holds(h, k) == \E e \in Entries(h) : e[1] = k

\* C8: insert(k, v2) on a tree that stores k replaces only the value of k:
\* same root, same nodes, every node's keys, children, parent and chain links
\* unchanged, same number of entries, same height.
C8_UpsertInPlace ==
    \A k \in Keys, v \in Vals :
        Holds(tree, k) =>
            LET h2 == insert(tree, k, v)
            IN  /\ h2.root = root
                /\ DOMAIN h2.nodes = DOMAIN nodes
                /\ \A id \in DOMAIN nodes :
                     [h2.nodes[id] EXCEPT !.values = nodes[id].values] = nodes[id]
                /\ Entries(h2) = {e \in Entries(tree) : e[1] # k} \cup {<<k, v>>}
                /\ EntryCount(h2) = EntryCount(tree)
                /\ Chain(h2) = Chain(tree)
                /\ height(h2) = height(tree)

\* an insert of a stored key has just run on a three-level tree, and keys
\* with both values are stored
C8_Witness ==
    /\ last.op = "insert" /\ last.hit
    /\ height(tree) = 3
    /\ \E k1, k2 \in Keys : model[k1] = "a" /\ model[k2] = "b"

\* C9: remove(k) on a tree, empty or not, that does not store k returns false
\* and leaves the whole tree unchanged (so height() and validate() too).
C9_RemoveAbsent ==
    \A k \in Keys :
        ~Holds(tree, k) =>
            LET r == remove(tree, k)
            IN  /\ r.ret = FALSE
                /\ r.h = tree
                /\ height(r.h) = height(tree)
                /\ validate(r.h) = validate(tree)

\* a remove of a key that was not stored has just returned false on a
\* three-level tree
C9_Witness ==
    /\ last.op = "remove" /\ ~last.hit /\ ~last.ret
    /\ height(tree) = 3

\* C10: remove(k) returns true exactly when k is stored; when it returns true
\* the entry of k is the only one that disappears and every other key keeps
\* its value.
C10_RemoveExact ==
    /\ last.op = "remove" => last.ret = last.hit
    /\ \A k \in Keys :
         LET r == remove(tree, k)
         IN  /\ r.ret = Holds(tree, k)
             /\ r.ret => /\ Entries(r.h) = {e \in Entries(tree) : e[1] # k}
                         /\ EntryCount(r.h) = EntryCount(tree) - 1

\* a remove has just returned true and left a tree of two levels or more that
\* stores keys with both values
C10_Witness ==
    /\ last.op = "remove" /\ last.ret /\ last.hit
    /\ height(tree) >= 2
    /\ \E k1, k2 \in Keys : model[k1] = "a" /\ model[k2] = "b"

\* the stored pairs with start <= key <= end, in ascending key order
RECURSIVE ModelRange(_, _)
ModelRange(start, end) ==
    IF start > end THEN <<>>
    ELSE (IF start \in Keys /\ Stored(start) THEN <<(<<start, model[start]>>)>> ELSE <<>>)
         \o ModelRange(start + 1, end)

\* C11: rangeQuery(start, end) returns exactly the stored pairs with
\* start <= key <= end, each once, in ascending key order; it is empty on an
\* empty tree, when start > end and when no stored key lies in the range.
C11_RangeQuery ==
    \A start, end \in QueryKeys :
        LET r == rangeQuery(tree, start, end)
        IN  /\ r = ModelRange(start, end)
            /\ (isEmpty(tree) \/ start > end) => r = <<>>

\* a range query that returned pairs, on a three-level tree where some range
\* spans three leaves and stops before the last one, and some range between
\* two stored keys is empty
C11_Witness ==
    /\ last.op = "rangeQuery" /\ last.hit
    /\ height(tree) = 3
    /\ \E start, end \in Keys :
         /\ end < MaxKey /\ Stored(MaxKey)
         /\ Len(rangeQuery(tree, start, end)) >= 3
         /\ Cardinality({l \in Leaves(tree) :
                           \E k \in KeySet(nodes[l]) : start <= k /\ k <= end}) >= 3
    /\ \E start, end \in Keys :
         /\ start <= end /\ rangeQuery(tree, start, end) = <<>>
         /\ \E k1, k2 \in Keys : Stored(k1) /\ Stored(k2) /\ k1 < start /\ end < k2

\* C12: the tree is empty exactly when the root is absent: isEmpty() is true
\* if and only if no entry is stored (no root leaf with zero keys is left
\* behind by remove), and height() is 0 if and only if the tree is empty.
C12_EmptyIffNoRoot ==
    /\ isEmpty(tree) <=> Entries(tree) = {}
    /\ isEmpty(tree) <=> \A k \in Keys : ~Stored(k)
    /\ height(tree) = 0 <=> isEmpty(tree)
    /\ \A k \in Keys :
         LET r == remove(tree, k).h
         IN  /\ isEmpty(r) <=> Entries(r) = {}
             /\ height(r) = 0 <=> isEmpty(r)

\* remove took the last entry out of a root leaf and left no root
C12_Witness ==
    /\ last.op = "remove" /\ last.ret /\ last.hit
    /\ isEmpty(tree) /\ root = 0 /\ height(tree) = 0
    /\ \A k \in Keys : ~Stored(k)

\* C13: validate() returns true after every prefix of every interleaved
\* sequence of insert and remove calls, for every order; evaluating it
\* follows no reference to a node that is not live.
C13_ValidateHolds ==
    /\ validate(tree)
    /\ \A id \in Nodes(tree) : \A i \in 1..(numKeys(nodes[id]) + 1) :
         isInternal(nodes[id]) => nodes[id].children[i] \in DOMAIN nodes

\* validate() passing on a three-level tree right after a remove that found
\* its key, with a leaf at each end of the allowed occupancy
C13_Witness ==
    /\ last.op = "remove" /\ last.ret
    /\ height(tree) = 3 /\ validate(tree)
    /\ Cardinality(Internals(tree)) >= 3
    /\ \E l1, l2 \in Leaves(tree) :
         numKeys(nodes[l1]) = minKeys /\ numKeys(nodes[l2]) = maxKeys

\* C14: an insert during which a node allocation fails leaves the tree with
\* exactly the structure (node contents, counts, parent references, leaf
\* links) and the entries it had before the call.
C14_AtomicFailure ==
    [][last'.op = "insertFault" =>
         /\ root' = root
         /\ nodes' = nodes
         /\ Entries([root |-> root', nodes |-> nodes']) = ModelEntries]_vars

\* the references held by the nodes the root reaches: child slots in use,
\* parent references and leaf links
Refs(h) ==
    UNION {{h.nodes[id].parent, h.nodes[id].next, h.nodes[id].prev}
             \cup {h.nodes[id].children[i] : i \in KidIdx(h.nodes[id])} :
           id \in Nodes(h)}

\* no reachable node refers to a node that was destroyed
NoDanglingRef(h) ==
    /\ h.root \in DOMAIN h.nodes \cup {0}
    /\ Refs(h) \subseteq DOMAIN h.nodes \cup {0}

\* C15: after an insert that failed during a split the tree is still valid:
\* the invariants on occupancy, leaf depth and key order hold, every internal
\* node has one child more than keys, and no child slot, parent reference or
\* leaf link of a reachable node refers to a destroyed node.
C15_BasicGuarantee ==
    last.op = "insertFault" =>
        /\ NoDanglingRef(tree)
        /\ \A id \in Nodes(tree) :
             /\ id # root => minKeys <= numKeys(nodes[id]) /\ numKeys(nodes[id]) <= maxKeys
             /\ StrictlyAscending(nodes[id].keys)
             /\ isInternal(nodes[id]) => Len(nodes[id].children) = numKeys(nodes[id]) + 1
        /\ Cardinality(LeafDepths(tree, root, 0, Fuel(tree))) <= 1

\* the tree built by calling insert on each pair of an input, in order
RECURSIVE insertAll(_, _)
insertAll(h, input) ==
    IF input = <<>> THEN h
    ELSE insertAll(insert(h, input[1][1], input[1][2]), Tail(input))

ModelEntriesBulk == {<<k, model[k]>> : k \in {x \in DOMAIN model : model[x] # NoVal}}

\* C18: after bulkLoad(S) on a tree in any reachable state exactly the keys
\* of S are stored, so no earlier entry survives unless S has its key; with
\* an empty S the tree is empty and validate() holds.
C18_BulkLoadReplaces ==
    /\ last.op = "bulkLoad" =>
         /\ Entries(tree) = ModelEntriesBulk
         /\ EntryCount(tree) = Cardinality(ModelEntriesBulk)
    /\ \A input \in BulkInputs :
         LET b == bulkLoad(tree, input)
         IN  /\ {e[1] : e \in Entries(b)} = {input[i][1] : i \in 1..Len(input)}
             /\ EntryCount(b) = Cardinality({input[i][1] : i \in 1..Len(input)})
             /\ input = <<>> => isEmpty(b) /\ validate(b) /\ b.nodes = <<>>

\* bulkLoad of the empty sequence on a tree that held entries
C18_Witness ==
    /\ last.op = "bulkLoad" /\ last.hit
    /\ isEmpty(tree) /\ nodes = <<>>
    /\ ModelEntriesBulk = {}

----------------------------------------------------------------------------
\* Iteration over the trees that bulkLoad, insert and remove leave.

\* the cursors at stored entries
Cursors(h) ==
    UNION {{[leaf |-> l, index |-> i] : i \in 0..(numKeys(h.nodes[l]) - 1)} :
           l \in Leaves(h)}

\* a full forward loop; hit: it yielded something
Iterate ==
    LET r == forward(tree, begin(tree), EntryCount(tree) + 1)
    IN  /\ last' = [op |-> "iterate", hit |-> r # <<>>, ret |-> TRUE]
        /\ UNCHANGED <<order, root, nodes, model>>

\* a full reverse loop
ReverseIterate ==
    LET r == backward(tree, rbegin(tree), EntryCount(tree) + 1)
    IN  /\ last' = [op |-> "reverseIterate", hit |-> r # <<>>, ret |-> TRUE]
        /\ UNCHANGED <<order, root, nodes, model>>

\* ++it then --it on a cursor at a stored entry; hit: the step left the
\* leaf, ret: it did not reach the end state
AdvanceRetreat(c) ==
    LET a == advance(tree, c)
        b == retreat(tree, a)
    IN  /\ last' = [op |-> "advanceRetreat",
                    hit |-> a # endCursor /\ a.leaf # c.leaf,
                    ret |-> a # endCursor]
        /\ UNCHANGED <<order, root, nodes, model>>

NextIter ==
    \/ NextBulk
    \/ Iterate
    \/ ReverseIterate
    \/ \E c \in Cursors(tree) : AdvanceRetreat(c)

SpecIter == InitBulk /\ [][NextIter]_vars

\* the pairs the abstract map holds, in ascending key order from key k on
RECURSIVE ModelSeqFrom(_)
ModelSeqFrom(k) ==
    IF k \notin DOMAIN model THEN <<>>
    ELSE (IF model[k] # NoVal THEN <<(<<k, model[k]>>)>> ELSE <<>>) \o ModelSeqFrom(k + 1)

Reversed(s) == [i \in 1..Len(s) |-> s[Len(s) + 1 - i]]

\* C19: forward iteration from begin() to end() yields exactly the stored
\* entries, each once, in strictly ascending key order (nothing on an empty
\* tree, where begin() is end()); iteration from rbegin() to rend() yields
\* the reverse of that sequence.
C19_IterationOrder ==
    LET f == forward(tree, begin(tree), EntryCount(tree) + 1)
        r == backward(tree, rbegin(tree), EntryCount(tree) + 1)
    IN  /\ f = ModelSeqFrom(1)
        /\ StrictlyAscending([i \in 1..Len(f) |-> f[i][1]])
        /\ r = Reversed(f)
        /\ isEmpty(tree) => begin(tree) = endCursor /\ rbegin(tree) = endCursor

\* a reverse loop over a three-level tree that an insert or remove changed
\* after it was loaded, with both values among the entries
C19_Witness ==
    /\ last.op = "reverseIterate" /\ last.hit
    /\ height(tree) = 3
    /\ Len(forward(tree, begin(tree), EntryCount(tree) + 1)) >= 6
    /\ \E k1, k2 \in DOMAIN model : model[k1] = "a" /\ model[k2] = "b"
    /\ \A n \in 0..MaxBulkKey : tree # Canon(bulkLoad(tree, descendingRun(n)))

\* C20: from a cursor at a stored entry that is not the last, advance then
\* retreat returns to the same (leaf, index), also across a leaf boundary;
\* advance from the last entry gives the end state; retreat from the end
\* state lands on the entry with the largest key.
C20_AdvanceRetreatInverse ==
    /\ \A c \in Cursors(tree) :
         LET a == advance(tree, c)
         IN  IF \E k \in DOMAIN model : model[k] # NoVal /\ k > dereference(tree, c)[1]
             THEN a \in Cursors(tree) /\ retreat(tree, a) = c
             ELSE a = endCursor /\ retreat(tree, endCursor) = c
    /\ isEmpty(tree) => retreat(tree, endCursor) = endCursor

\* an advance that moved to the next leaf, in a tree of at least three leaves
\* changed by an insert or remove after it was loaded
C20_Witness ==
    /\ last.op = "advanceRetreat" /\ last.hit /\ last.ret
    /\ Cardinality(Leaves(tree)) >= 3
    /\ \A n \in 0..MaxBulkKey : tree # Canon(bulkLoad(tree, descendingRun(n)))

----------------------------------------------------------------------------
\* The constructor.  A tree is requested with any order; the constructor
\* raises an order below MIN_ORDER to MIN_ORDER and derives maxKeys and
\* minKeys (the definitions above) from the order it keeps.

\* The smallest order of a tree (Config.h): an internal node of order 3 has
\* at least two children, so every non-root node has an adjacent sibling.
MIN_ORDER == 3

\* Largest order requested of the constructor.
MaxOrder == 7

RequestedOrders == (0 - 2)..MaxOrder

clampOrderKeep(ord) == ord

\* if (order < MIN_ORDER) order = MIN_ORDER;
clampOrder(ord) == IF ord < MIN_ORDER THEN MIN_ORDER ELSE ord

\* No tree exists yet.
InitConstruct ==
    /\ order = 0
    /\ root = 0
    /\ nodes = <<>>
    /\ model = [k \in Keys |-> NoVal]
    /\ last = [op |-> "none", hit |-> FALSE, ret |-> TRUE]

\* BPlusTree(ord): hit records whether the requested order was below the
\* minimum.
Construct(ord) ==
    /\ last.op = "none"
    /\ order' = clampOrder(ord)
    /\ root' = 0
    /\ nodes' = <<>>
    /\ last' = [op |-> "new", hit |-> ord < MIN_ORDER, ret |-> TRUE]
    /\ UNCHANGED model

NextConstruct ==
    \/ \E ord \in RequestedOrders : Construct(ord)
    \/ /\ last.op # "none"
       /\ \E k \in Keys, v \in Vals : Insert(k, v)

SpecConstruct == InitConstruct /\ [][NextConstruct]_vars

\* the least c with 2c >= m
CeilHalf(m) == CHOOSE c \in 0..m : 2 * c >= m /\ 2 * (c - 1) < m

\* C21: a constructor call never faults, a requested order below the minimum
\* yields the configuration of the minimum order, and for the order kept
\* maxKeys = order - 1, minKeys = ceil(order / 2) - 1 and
\* 2 * minKeys <= maxKeys.
C21_OrderClamp ==
    last.op # "none" =>
        /\ order >= MIN_ORDER
        /\ (last.op = "new" /\ last.hit) => order = MIN_ORDER
        /\ maxKeys = order - 1
        /\ minKeys = CeilHalf(order) - 1
        /\ 2 * minKeys <= maxKeys
        /\ minKeys >= 1

C21_Witness ==
    /\ last.op = "new"
    /\ last.hit
    /\ order = MIN_ORDER
    /\ maxKeys = 2
    /\ minKeys = 1

----------------------------------------------------------------------------
\* Splits seen from the caller: the tree before insert(k, v) and after it.
\* insert leaves the addresses of the nodes it keeps unchanged, so a node of
\* the tree before is the same node after.

\* insert(k, ...) overflows the leaf it descends to
SplitsLeaf(k) ==
    /\ root # 0
    /\ LET l == nodes[findLeaf(tree, k)]
       IN  /\ ~findValue(l, k).found
           /\ numKeys(l) = maxKeys

\* ... and the separator of that split overflows the leaf's parent
SplitsInternal(k) ==
    /\ SplitsLeaf(k)
    /\ LET p == nodes[findLeaf(tree, k)].parent
       IN  p # 0 /\ numKeys(nodes[p]) = maxKeys

\* the leaf with maxKeys + 1 entries that splitLeaf receives
OverflowLeaf(k, v) ==
    LET l == nodes[findLeaf(tree, k)]
    IN  insertAt(l, findKeyPosition(l, k), k, v)

\* the internal node with maxKeys + 1 keys that splitInternal receives: the
\* leaf's parent with the separator sep and the new leaf right
OverflowParent(k, sep, right) ==
    LET p == nodes[nodes[findLeaf(tree, k)].parent]
        pos == findKeyPosition(p, sep)
    IN  insertChildAt(insertKeyAt(p, pos, sep), pos + 1, right)

\* the leaf split of insert(k, v) keeps entries [0, sp) and moves
\* [sp, maxKeys + 1) to a new right leaf
LeafSplitAt(k, v, sp) ==
    LET leaf == findLeaf(tree, k)
        full == OverflowLeaf(k, v)
        r == insert(tree, k, v)
        right == r.nodes[leaf].next
    IN  /\ right \notin DOMAIN nodes
        /\ r.nodes[leaf].keys = SubSeq(full.keys, 1, sp)
        /\ r.nodes[leaf].values = SubSeq(full.values, 1, sp)
        /\ r.nodes[right].keys = SubSeq(full.keys, sp + 1, maxKeys + 1)
        /\ r.nodes[right].values = SubSeq(full.values, sp + 1, maxKeys + 1)

\* the internal split of insert(k, v) keeps keys [0, sp) and children
\* [0, sp], and moves keys [sp + 1, maxKeys + 1) and children
\* [sp + 1, maxKeys + 2) to a new right node
InternalSplitAt(k, v, sp) ==
    LET leaf == findLeaf(tree, k)
        p == nodes[leaf].parent
        r == insert(tree, k, v)
        right == r.nodes[leaf].next
        full == OverflowParent(k, r.nodes[right].keys[1], right)
    IN  /\ r.nodes[p].keys = SubSeq(full.keys, 1, sp)
        /\ r.nodes[p].children = SubSeq(full.children, 1, sp + 1)
        /\ \E q \in DOMAIN r.nodes \ DOMAIN nodes :
              /\ isInternal(r.nodes[q])
              /\ r.nodes[q].keys = SubSeq(full.keys, sp + 2, maxKeys + 1)
              /\ r.nodes[q].children = SubSeq(full.children, sp + 2, maxKeys + 2)

\* C22 as stated: every leaf split and every internal split is at
\* ceil((maxKeys + 1) / 2).
C22_SplitPointCeil ==
    \A k \in Keys, v \in Vals :
        /\ SplitsLeaf(k) => LeafSplitAt(k, v, CeilHalf(maxKeys + 1))
        /\ SplitsInternal(k) => InternalSplitAt(k, v, CeilHalf(maxKeys + 1))

\* C22 (amended): every leaf split and every internal split is at
\* floor((maxKeys + 1) / 2), which is ceil((maxKeys + 1) / 2) for an even
\* order and one less for an odd order.
C22_SplitPointFloor ==
    LET sp == (maxKeys + 1) \div 2
    IN  /\ sp = CeilHalf(maxKeys + 1) - (order % 2)
        /\ \A k \in Keys, v \in Vals :
              /\ SplitsLeaf(k) => LeafSplitAt(k, v, sp)
              /\ SplitsInternal(k) => InternalSplitAt(k, v, sp)

C22_Witness ==
    /\ order % 2 = 1
    /\ last.op = "insert"
    /\ \E k \in Keys : SplitsInternal(k)

\* the keys held by the internal nodes of a heap, and how many internal
\* key slots hold key
InternalKeys(h) ==
    UNION {{h.nodes[id].keys[i] : i \in 1..numKeys(h.nodes[id])} :
             id \in {x \in DOMAIN h.nodes : isInternal(h.nodes[x])}}

InternalSlots(h, key) ==
    {<<id, i>> \in (DOMAIN h.nodes) \X (1..(maxKeys + 1)) :
        /\ isInternal(h.nodes[id])
        /\ i <= numKeys(h.nodes[id])
        /\ h.nodes[id].keys[i] = key}

\* the value insert(k, v) leaves with key
ValueAfter(k, v, key) == IF key = k THEN v ELSE model[key]

\* the leaf split of insert(k, v) adds exactly one separator to the internal
\* nodes: the first key of the new right leaf, which the right leaf keeps
\* with its value; when both leaves are under one parent the separator lies
\* between them
LeafPromotion(k, v) ==
    LET leaf == findLeaf(tree, k)
        r == insert(tree, k, v)
        right == r.nodes[leaf].next
        first == r.nodes[right].keys[1]
        pl == r.nodes[leaf].parent
        pr == r.nodes[right].parent
    IN  /\ InternalKeys(r) \ InternalKeys(tree) = {first}
        /\ Cardinality(InternalSlots(r, first)) = 1
        /\ findValue(r.nodes[right], first)
             = [found |-> TRUE, value |-> ValueAfter(k, v, first)]
        /\ pl # 0 /\ pr # 0
        /\ pl = pr =>
             LET i == getNodeIndex(r, leaf)
             IN  /\ i >= 0
                 /\ r.nodes[pl].keys[i + 1] = first
                 /\ r.nodes[pl].children[i + 2] = right

\* the internal split of insert(k, v): the middle key of the overflowing
\* node is in neither half and in exactly one internal key slot, which is in
\* the parent of both halves unless that parent was split as well; every
\* child of the overflowing node is in exactly one half and has that half as
\* its parent
InternalPromotion(k, v) ==
    LET leaf == findLeaf(tree, k)
        p == nodes[leaf].parent
        r == insert(tree, k, v)
        right == r.nodes[leaf].next
        full == OverflowParent(k, r.nodes[right].keys[1], right)
        middle == full.keys[(maxKeys + 1) \div 2 + 1]
        q == r.nodes[full.children[maxKeys + 2]].parent
        halfOf(c) == {x \in {p, q} : \E i \in 1..Len(r.nodes[x].children) :
                                        r.nodes[x].children[i] = c}
        up == nodes[p].parent
    IN  /\ q \in DOMAIN r.nodes \ DOMAIN nodes
        /\ isInternal(r.nodes[q])
        /\ \A i \in 1..numKeys(r.nodes[p]) : r.nodes[p].keys[i] # middle
        /\ \A i \in 1..numKeys(r.nodes[q]) : r.nodes[q].keys[i] # middle
        /\ Cardinality(InternalSlots(r, middle)) = 1
        /\ (up = 0 \/ numKeys(nodes[up]) < maxKeys) =>
              /\ r.nodes[p].parent = r.nodes[q].parent
              /\ \E i \in 1..numKeys(r.nodes[r.nodes[p].parent]) :
                    r.nodes[r.nodes[p].parent].keys[i] = middle
        /\ \A j \in 1..(maxKeys + 2) :
              LET c == full.children[j]
              IN  /\ Cardinality(halfOf(c)) = 1
                  /\ r.nodes[c].parent \in halfOf(c)
                  /\ Cardinality({i \in 1..Len(r.nodes[r.nodes[c].parent].children) :
                                    r.nodes[r.nodes[c].parent].children[i] = c}) = 1

\* C23: a leaf split promotes a copy of the first key of the new right leaf,
\* which stays in that leaf with its value; an internal split moves its
\* middle key out of both halves to exactly one place one level up, and every
\* child of the split node is in exactly one half, which is its parent.
C23_Promotion ==
    \A k \in Keys, v \in Vals :
        /\ SplitsLeaf(k) => LeafPromotion(k, v)
        /\ SplitsInternal(k) => InternalPromotion(k, v)

C23_Witness ==
    /\ last.op = "insert"
    /\ height(tree) = 2
    /\ \E k \in Keys : SplitsInternal(k)

----------------------------------------------------------------------------
\* Rebalancing seen from the caller: the tree before remove(k) and after it.
\* remove allocates nothing, so a node that is live after the call is the
\* node of that address before it, and a node that is gone was deleted by a
\* merge or by the collapse of the root.

\* the nodes findLeaf visits on its way to key
RECURSIVE PathFrom(_, _, _)
PathFrom(h, current, key) ==
    IF current # 0 /\ isInternal(h.nodes[current])
    THEN {current} \cup
         PathFrom(h, h.nodes[current].children[findChildIndex(h.nodes[current], key) + 1], key)
    ELSE {current} \ {0}

\* the adjacent siblings of a non-root node of the tree (0: none)
LeftSib(u) ==
    LET i == getNodeIndex(tree, u)
    IN  IF i > 0 THEN nodes[nodes[u].parent].children[i] ELSE 0

RightSib(u) ==
    LET i == getNodeIndex(tree, u)
        p == nodes[nodes[u].parent]
    IN  IF i >= 0 /\ i < numKeys(p) THEN p.children[i + 2] ELSE 0

Surplus(s) == s # 0 /\ numKeys(nodes[s]) > minKeys

\* x lies below u in the tree
RECURSIVE IsBelow(_, _)
IsBelow(x, u) ==
    /\ nodes[x].parent # 0
    /\ (nodes[x].parent = u \/ IsBelow(nodes[x].parent, u))

\* remove(k) takes u below minKeys: u is the leaf that loses k, or an
\* internal node that loses a child to a merge, and held minKeys keys
Underflowed(k, u) ==
    LET r == remove(tree, k).h
    IN  /\ u # root
        /\ numKeys(nodes[u]) = minKeys
        /\ \/ isLeaf(nodes[u])
           \/ \E i \in 1..Len(nodes[u].children) :
                 nodes[u].children[i] \notin DOMAIN r.nodes

\* remove(k) settled the underflow of u by one redistribution from sibling
\* s: s gave exactly one entry (with the child under it, for an internal
\* node) across to u, the other sibling and everything above the parent are
\* untouched, the parent keeps its children and its number of keys, no node
\* outside the subtree of u is gone and the height is what it was
BorrowedFrom(k, u, s, isLeftSibling) ==
    LET r == remove(tree, k).h
        p == nodes[u].parent
        other == IF isLeftSibling THEN RightSib(u) ELSE LeftSib(u)
        sb == nodes[s]
        ra == r.nodes[s]
        ru == r.nodes[u]
    IN  /\ {u, s, p} \subseteq DOMAIN r.nodes
        /\ numKeys(ra) = numKeys(sb) - 1
        /\ numKeys(ru) = minKeys
        /\ IF isLeaf(sb)
           THEN IF isLeftSibling
                THEN /\ ra.keys = SubSeq(sb.keys, 1, numKeys(sb) - 1)
                     /\ ra.values = SubSeq(sb.values, 1, numKeys(sb) - 1)
                     /\ ru.keys[1] = sb.keys[numKeys(sb)]
                     /\ ru.values[1] = sb.values[numKeys(sb)]
                ELSE /\ ra.keys = SubSeq(sb.keys, 2, numKeys(sb))
                     /\ ra.values = SubSeq(sb.values, 2, numKeys(sb))
                     /\ ru.keys[minKeys] = sb.keys[1]
                     /\ ru.values[minKeys] = sb.values[1]
           ELSE IF isLeftSibling
                THEN /\ ra.keys = SubSeq(sb.keys, 1, numKeys(sb) - 1)
                     /\ ra.children = SubSeq(sb.children, 1, numKeys(sb))
                     /\ ru.children[1] = sb.children[numKeys(sb) + 1]
                     /\ r.nodes[ru.children[1]].parent = u
                ELSE /\ ra.keys = SubSeq(sb.keys, 2, numKeys(sb))
                     /\ ra.children = SubSeq(sb.children, 2, numKeys(sb) + 1)
                     /\ ru.children[minKeys + 1] = sb.children[1]
                     /\ r.nodes[ru.children[minKeys + 1]].parent = u
        /\ Len(ru.children) = Len(nodes[u].children)
        /\ other # 0 => r.nodes[other] = nodes[other]
        /\ r.nodes[p].children = nodes[p].children
        /\ numKeys(r.nodes[p]) = numKeys(nodes[p])
        /\ \A a \in DOMAIN nodes : IsBelow(p, a) => r.nodes[a] = nodes[a]
        /\ \A x \in DOMAIN nodes \ DOMAIN r.nodes : IsBelow(x, u)
        /\ r.root = root
        /\ height(r) = height(tree)

\* C24: a node that underflows borrows one entry from its left sibling when
\* that sibling has more than minKeys keys, else from its right sibling when
\* that one has, and the redistribution ends the rebalancing; a merge
\* happens only at a node neither of whose adjacent siblings has more than
\* minKeys keys.
C24_BorrowBeforeMerge ==
    \A k \in Keys :
        model[k] # NoVal =>
            LET r == remove(tree, k).h
                path == PathFrom(tree, root, k)
            IN  /\ \A u \in path :
                      Underflowed(k, u) =>
                          /\ Surplus(LeftSib(u)) =>
                                BorrowedFrom(k, u, LeftSib(u), TRUE)
                          /\ ~Surplus(LeftSib(u)) /\ Surplus(RightSib(u)) =>
                                BorrowedFrom(k, u, RightSib(u), FALSE)
                /\ \A x \in DOMAIN nodes \ DOMAIN r.nodes :
                      x # root =>
                          LET u == IF x \in path THEN x ELSE LeftSib(x)
                          IN  /\ u \in path
                              /\ Underflowed(k, u)
                              /\ ~Surplus(LeftSib(u))
                              /\ ~Surplus(RightSib(u))

\* a remove has run and a leaf that holds minKeys entries has a left and a
\* right sibling that both have entries to spare
C24_Witness ==
    /\ last.op = "remove"
    /\ last.ret
    /\ \E k \in Keys :
          /\ model[k] # NoVal
          /\ \E u \in PathFrom(tree, root, k) :
                /\ isLeaf(nodes[u])
                /\ Underflowed(k, u)
                /\ Surplus(LeftSib(u))
                /\ Surplus(RightSib(u))

----------------------------------------------------------------------------
\* The merges of one remove(k), each with the heap it is called on.  The
\* first heap is the tree with k taken out of its leaf; a merge on one level
\* is followed by at most one merge on the level above.  The node a merge
\* deletes is the right node of the merge: the node on the path to k, or its
\* right sibling.

\* remove(k) up to its underflow check
TakenOut(k) ==
    LET leaf == findLeaf(tree, k)
        l == nodes[leaf]
        pos == CHOOSE i \in 0..(numKeys(l) - 1) : l.keys[i + 1] = k
    IN  [tree EXCEPT !.nodes[leaf] = removeAt(l, pos)]

RECURSIVE MergeCalls(_, _, _)
MergeCalls(h, u, gone) ==
    IF u = 0 \/ u = root \/ ({u, RightSib(u)} \cap gone = {}) THEN <<>>
    ELSE LET right == IF u \in gone THEN u ELSE RightSib(u)
             left == IF u \in gone THEN LeftSib(u) ELSE u
             call == [h |-> h, left |-> left, right |-> right,
                      parentIndex |-> getNodeIndex(tree, left)]
         IN  <<call>> \o
             MergeCalls(mergeStep(h, left, right, call.parentIndex),
                        nodes[u].parent, gone)

\* what one merge does, from the heap h it is called on to the heap after
MergeEffect(c) ==
    LET h == c.h
        after == mergeStep(h, c.left, c.right, c.parentIndex)
        l == h.nodes[c.left]
        r == h.nodes[c.right]
        parent == l.parent
        p == h.nodes[parent]
        l2 == after.nodes[c.left]
        p2 == after.nodes[parent]
    IN  /\ p.children[c.parentIndex + 1] = c.left
        /\ p.children[c.parentIndex + 2] = c.right
        /\ DOMAIN after.nodes = DOMAIN h.nodes \ {c.right}
        /\ Cardinality(DOMAIN after.nodes) = Cardinality(DOMAIN h.nodes) - 1
        /\ numKeys(l2) <= maxKeys
        /\ IF isLeaf(l)
           THEN /\ l2.keys = l.keys \o r.keys
                /\ l2.values = l.values \o r.values
           ELSE /\ l2.keys = l.keys \o <<p.keys[c.parentIndex + 1]>> \o r.keys
                /\ l2.children = l.children \o r.children
                /\ Len(l2.children) = numKeys(l2) + 1
                /\ \A i \in 1..Len(l2.children) :
                      after.nodes[l2.children[i]].parent = c.left
        /\ Len(p2.keys) = Len(p.keys) - 1
        /\ \A i \in 1..Len(p2.keys) :
              p2.keys[i] = p.keys[IF i <= c.parentIndex THEN i ELSE i + 1]
        /\ Len(p2.children) = Len(p.children) - 1
        /\ \A i \in 1..Len(p2.children) :
              p2.children[i] = p.children[IF i <= c.parentIndex + 1 THEN i ELSE i + 1]

\* C25: every merge absorbs the right node into the left one, which then
\* holds the keys of both (and, between them, the separator for internal
\* nodes), at most maxKeys in all, and is the parent of all its children;
\* the merge deletes exactly the right node and takes exactly the separator
\* at parentIndex and the child slot parentIndex + 1 out of the parent.  The
\* survivor keeps that content to the end of the remove.
C25_MergeAbsorbsRight ==
    \A k \in Keys :
        model[k] # NoVal =>
            LET r == remove(tree, k).h
                gone == DOMAIN nodes \ DOMAIN r.nodes
                calls == MergeCalls(TakenOut(k), findLeaf(tree, k), gone)
            IN  /\ Len(calls) = Cardinality(gone \ {root})
                /\ \A i \in 1..Len(calls) :
                      LET c == calls[i]
                          after == mergeStep(c.h, c.left, c.right, c.parentIndex)
                      IN  /\ MergeEffect(c)
                          /\ c.right \in gone
                          /\ r.nodes[c.left].keys = after.nodes[c.left].keys
                          /\ r.nodes[c.left].values = after.nodes[c.left].values
                          /\ r.nodes[c.left].children = after.nodes[c.left].children

\* a remove has run, and a further remove merges two leaves and then two
\* internal nodes
C25_Witness ==
    /\ last.op = "remove"
    /\ \E k \in Keys :
          /\ model[k] # NoVal
          /\ LET gone == DOMAIN nodes \ DOMAIN remove(tree, k).h.nodes
             IN  \E x, y \in gone : isLeaf(nodes[x]) /\ isInternal(nodes[y]) /\ y # root

----------------------------------------------------------------------------
\* C26: an internal root holds at least one key; a remove that leaves the
\* internal root without keys deletes it and makes its single remaining
\* child the root, with no parent, and the height goes down by exactly one;
\* no remove takes more than one level off the tree, and none takes a level
\* off in another way; no insert adds more than one level.
C26_RootCollapse ==
    /\ (root # 0 /\ isInternal(nodes[root])) => numKeys(nodes[root]) >= 1
    /\ \A k \in Keys :
          LET r == remove(tree, k).h
              collapsed == root # 0 /\ isInternal(nodes[root])
                           /\ root \notin DOMAIN r.nodes
          IN  /\ height(r) \in {height(tree), height(tree) - 1}
              /\ collapsed =>
                    /\ numKeys(nodes[root]) = 1
                    /\ r.root = nodes[root].children[1]
                    /\ r.nodes[r.root].parent = 0
                    /\ height(r) = height(tree) - 1
                    /\ isInternal(r.nodes[r.root]) => numKeys(r.nodes[r.root]) >= 1
              /\ (height(r) < height(tree) /\ height(tree) > 1) => collapsed
              /\ (root # 0 /\ ~collapsed /\ r.root # 0) => r.root = root
    /\ \A k \in Keys, v \in Vals :
          LET r == insert(tree, k, v)
          IN  /\ height(r) \in {height(tree), height(tree) + 1}
              /\ r.nodes[r.root].parent = 0

\* a remove has run on a tree of height 3 and a further remove collapses the
\* root
C26_Witness ==
    /\ last.op = "remove"
    /\ last.ret
    /\ height(tree) = 3
    /\ \E k \in Keys : root \notin DOMAIN remove(tree, k).h.nodes

----------------------------------------------------------------------------
\* The leaves rangeQuery reads.  The loop of rangeQuery once more, keeping
\* the leaves its outer loop enters, in order, instead of the pairs.

\* Mutant of rangeVisit: a key beyond end does not end the scan.
RECURSIVE rangeVisitToEnd(_, _, _, _, _, _)
rangeVisitToEnd(h, leaf, i, start, end, visited) ==
    IF leaf = 0 THEN visited
    ELSE LET l == h.nodes[leaf]
             seen == IF i = 0 THEN Append(visited, leaf) ELSE visited
         IN  IF i >= numKeys(l) THEN rangeVisitToEnd(h, l.next, 0, start, end, seen)
             ELSE rangeVisitToEnd(h, leaf, i + 1, start, end, seen)

RECURSIVE rangeVisit(_, _, _, _, _, _)
rangeVisit(h, leaf, i, start, end, visited) ==
    IF leaf = 0 THEN visited
    ELSE LET l == h.nodes[leaf]
             seen == IF i = 0 THEN Append(visited, leaf) ELSE visited
         IN  IF i >= numKeys(l) THEN rangeVisit(h, l.next, 0, start, end, seen)
             ELSE IF l.keys[i + 1] >= start /\ l.keys[i + 1] <= end
             THEN rangeVisit(h, leaf, i + 1, start, end, seen)
             ELSE IF l.keys[i + 1] > end THEN seen
             ELSE rangeVisit(h, leaf, i + 1, start, end, seen)

\* the leaves rangeQuery(start, end) reads on a tree that is not empty
Visited(start, end) ==
    rangeVisit(tree, findLeaf(tree, start), 0, start, end, <<>>)

HasKeyAbove(leaf, end) ==
    \E i \in 1..numKeys(nodes[leaf]) : nodes[leaf].keys[i] > end

\* the leaves before a leaf in the chain
RECURSIVE LeavesBefore(_)
LeavesBefore(leaf) ==
    IF nodes[leaf].prev = 0 THEN {}
    ELSE {nodes[leaf].prev} \cup LeavesBefore(nodes[leaf].prev)

\* C27: rangeQuery reads the leaf findLeaf(start) selects first, then only
\* the next leaf of the leaf it read last; it reads no leaf before the
\* starting leaf and no leaf after the first leaf that holds a key greater
\* than end; every pair it returns is in a leaf it read.
C27_RangeVisit ==
    root # 0 =>
        \A start, end \in QueryKeys :
            LET visited == Visited(start, end)
                n == Len(visited)
                r == rangeQuery(tree, start, end)
            IN  /\ n >= 1
                /\ visited[1] = findLeaf(tree, start)
                /\ \A i \in 1..(n - 1) :
                      /\ visited[i + 1] = nodes[visited[i]].next
                      /\ ~HasKeyAbove(visited[i], end)
                /\ HasKeyAbove(visited[n], end) \/ nodes[visited[n]].next = 0
                /\ \A i \in 1..n : visited[i] \notin LeavesBefore(visited[1])
                /\ \A j \in 1..Len(r) :
                      \E i \in 1..n :
                          findValue(nodes[visited[i]], r[j][1])
                            = [found |-> TRUE, value |-> r[j][2]]

\* a range query has run, and some range starts after the first leaf, reads
\* three leaves and stops before the last leaf
C27_Witness ==
    /\ last.op = "rangeQuery" /\ last.hit
    /\ root # 0
    /\ \E start, end \in QueryKeys :
          LET visited == Visited(start, end)
          IN  /\ Len(visited) >= 3
              /\ nodes[visited[1]].prev # 0
              /\ nodes[visited[Len(visited)]].next # 0

----------------------------------------------------------------------------
\* The queries as calls of the program.  search, rangeQuery, height, isEmpty
\* and validate are const member functions: they assign no field of the tree
\* or of a node, and what they return goes to the caller (last).  A query is
\* the last call of a behaviour here: the calls that may follow it are the
\* calls that may follow the state it was made in.

ReadOps == {"search", "rangeQuery", "height", "isEmpty", "validate"}

Search(k) ==
    /\ last' = [op |-> "search", hit |-> Stored(k), ret |-> search(tree, k).found]
    /\ UNCHANGED <<order, root, nodes, model>>

\* Mutant of Height: the descent moves the root instead of a local cursor.
HeightMovesRoot ==
    /\ last' = [op |-> "height", hit |-> root # 0, ret |-> TRUE]
    /\ root' = IF root # 0 /\ isInternal(nodes[root])
               THEN nodes[root].children[1] ELSE root
    /\ UNCHANGED <<order, nodes, model>>

\* hit: the height is not 0
Height ==
    /\ last' = [op |-> "height", hit |-> height(tree) > 0, ret |-> TRUE]
    /\ UNCHANGED <<order, root, nodes, model>>

IsEmpty ==
    /\ last' = [op |-> "isEmpty", hit |-> FALSE, ret |-> isEmpty(tree)]
    /\ UNCHANGED <<order, root, nodes, model>>

Validate ==
    /\ last' = [op |-> "validate", hit |-> FALSE, ret |-> validate(tree)]
    /\ UNCHANGED <<order, root, nodes, model>>

NextRead ==
    \/ last.op \notin ReadOps /\ Next
    \/ /\ last.op \notin ReadOps
       /\ \/ \E k \in Keys : Search(k)
          \/ \E start \in QueryKeys, span \in QuerySpans : RangeQuery(start, start + span)
          \/ Height
          \/ IsEmpty
          \/ Validate

SpecRead == Init /\ [][NextRead]_vars

----------------------------------------------------------------------------
\* The calls of deleteEntry on a node that is not the root during remove(k),
\* each with the heap it is made on: on the leaf when taking k out leaves it
\* underflowing, and after a merge on the parent when that underflows.
RebalanceCalls(k) ==
    LET leaf == findLeaf(tree, k)
        h0 == TakenOut(k)
        gone == DOMAIN nodes \ DOMAIN remove(tree, k).h.nodes
        calls == MergeCalls(h0, leaf, gone)
        above(c) == LET after == mergeStep(c.h, c.left, c.right, c.parentIndex)
                        parent == c.h.nodes[c.left].parent
                    IN  IF isUnderflow(after.nodes[parent]) /\ parent # after.root
                        THEN {[h |-> after, node |-> parent]}
                        ELSE {}
    IN  (IF leaf # root /\ isUnderflow(h0.nodes[leaf])
         THEN {[h |-> h0, node |-> leaf]} ELSE {})
        \cup UNION {above(calls[i]) : i \in 1..Len(calls)}

\* the child slots of a node's parent that hold the node
SlotsOf(h, id) ==
    LET p == h.nodes[h.nodes[id].parent]
    IN  {i \in 0..numKeys(p) : p.children[i + 1] = id}

\* C29: the root has no parent, and the parent of every other node is a
\* live internal node that holds the node in exactly one of its child slots
\* in use; whenever deleteEntry looks a node up in its parent, getNodeIndex
\* returns the slot that holds it, never -1.
C29_ParentRefs ==
    /\ root # 0 => nodes[root].parent = 0
    /\ \A id \in DOMAIN nodes \ {root} :
          /\ nodes[id].parent \in DOMAIN nodes
          /\ isInternal(nodes[nodes[id].parent])
          /\ Cardinality(SlotsOf(tree, id)) = 1
    /\ \A id \in DOMAIN nodes :
          \A i \in 1..Len(nodes[id].children) :
              /\ nodes[id].children[i] \in DOMAIN nodes
              /\ nodes[nodes[id].children[i]].parent = id
    /\ \A k \in Keys :
          Stored(k) =>
              \A c \in RebalanceCalls(k) :
                  /\ c.h.nodes[c.node].parent \in DOMAIN c.h.nodes
                  /\ getNodeIndex(c.h, c.node) # -1
                  /\ SlotsOf(c.h, c.node) = {getNodeIndex(c.h, c.node)}

\* a remove has run, and a further remove looks up a leaf and then an
\* internal node in their parents
C29_Witness ==
    /\ last.op = "remove"
    /\ last.ret
    /\ \E k \in Keys :
          /\ Stored(k)
          /\ \E c, d \in RebalanceCalls(k) :
                isLeaf(c.h.nodes[c.node]) /\ isInternal(d.h.nodes[d.node])

----------------------------------------------------------------------------
\* Buffer slots.  A node's keys (and a leaf's values) are vectors of
\* maxKeys + 1 slots and an internal node's children a vector of
\* maxKeys + 3 slots (Node.h).  The operators below give the C++ slot
\* indices that a step reads or writes, k in keys/values and c in children,
\* from the loop bounds and index expressions of the step.

Slots(k, c) == [k |-> k, c |-> c]

\* the indices i and i + d for i in lo..hi
Shifted(lo, hi, d) == UNION {{i, i + d} : i \in lo..hi}

\* Node::insertKeyAt and LeafNode::insertAt, on the node before the call
insertKeyAtSlots(n, pos) ==
    Slots({pos} \cup Shifted(pos + 1, numKeys(n), 0 - 1), {})

\* InternalNode::insertChildAt, on the node after insertKeyAt
insertChildAtSlots(n, pos) ==
    LET numChildren == numKeys(n) + 1
    IN  Slots({}, {pos} \cup Shifted(pos + 1, numChildren, 0 - 1))

\* Node::removeKeyAt and LeafNode::removeAt, on the node before the call
removeKeyAtSlots(n, pos) == Slots(Shifted(pos, numKeys(n) - 2, 1), {})

\* InternalNode::removeChildAt, on the node before removeKeyAt
removeChildAtSlots(n, pos) ==
    LET numChildren == numKeys(n) + 1
    IN  Slots({}, Shifted(pos, numChildren - 2, 1) \cup {numChildren - 1})

\* splitLeaf, on the overflowing leaf: the entries moved and their slots in
\* the new leaf
splitLeafSlots(l) ==
    Slots((splitPoint..(numKeys(l) - 1)) \cup (0..(numKeys(l) - splitPoint - 1)), {})

\* splitInternal, on the overflowing node: the middle key, the keys and
\* children moved and their slots in the new node
splitInternalSlots(n) ==
    LET numOriginalChildren == numKeys(n) + 1
    IN  Slots((splitPoint..(numKeys(n) - 1)) \cup (0..(numKeys(n) - splitPoint - 2)),
              ((splitPoint + 1)..(numOriginalChildren - 1))
                \cup (0..(numOriginalChildren - splitPoint - 2)))

\* insertIntoParent on the nodes above left, for the separator key; the
\* slots do not depend on which child is inserted
RECURSIVE insertIntoParentSlots(_, _)
insertIntoParentSlots(left, key) ==
    IF nodes[left].parent = 0
    THEN {Slots({0}, {0, 1})}
    ELSE LET parent == nodes[left].parent
             p == nodes[parent]
             pos == findKeyPosition(p, key)
             p1 == insertKeyAt(p, pos, key)
             p2 == insertChildAt(p1, pos + 1, 0)
         IN  {insertKeyAtSlots(p, pos), insertChildAtSlots(p1, pos + 1)}
             \cup (IF isFull(p2)
                   THEN {splitInternalSlots(p2)}
                        \cup insertIntoParentSlots(parent, p2.keys[splitPoint + 1])
                   ELSE {})

\* insert(key, value) on the tree
insertSlots(key, value) ==
    IF root = 0 THEN {insertKeyAtSlots(LeafNode, 0)}
    ELSE LET leaf == findLeaf(tree, key)
             l == nodes[leaf]
             pos == findKeyPosition(l, key)
         IN  IF pos < numKeys(l) /\ l.keys[pos + 1] = key
             THEN {Slots({pos}, {})}
             ELSE LET l2 == insertAt(l, pos, key, value)
                  IN  {insertKeyAtSlots(l, pos)}
                      \cup (IF isFull(l2)
                            THEN {splitLeafSlots(l2)}
                                 \cup insertIntoParentSlots(leaf, l2.keys[splitPoint + 1])
                            ELSE {})

\* mergeNodes, on the two nodes and the parent before the call
mergeSlots(l, r, p, parentIndex) ==
    IF isLeaf(l)
    THEN {Slots((numKeys(l)..(numKeys(l) + numKeys(r) - 1)) \cup (0..(numKeys(r) - 1)), {}),
          removeChildAtSlots(p, parentIndex + 1),
          removeKeyAtSlots(p, parentIndex)}
    ELSE {Slots((numKeys(l)..(numKeys(l) + numKeys(r))) \cup (0..(numKeys(r) - 1))
                  \cup {parentIndex},
                ((numKeys(l) + 1)..(numKeys(l) + 1 + numKeys(r))) \cup (0..numKeys(r))),
          removeChildAtSlots(p, parentIndex + 1),
          removeKeyAtSlots(p, parentIndex)}

\* redistributeNodes, on the node and the sibling before the call
redistributeSlots(n, sib, parentIndex, isLeftSibling) ==
    IF isLeaf(n)
    THEN IF isLeftSibling
         THEN Slots(Shifted(1, numKeys(n), 0 - 1) \cup {0, numKeys(sib) - 1, parentIndex}, {})
         ELSE Slots({numKeys(n), 0, parentIndex} \cup Shifted(0, numKeys(sib) - 2, 1), {})
    ELSE IF isLeftSibling
         THEN Slots(Shifted(1, numKeys(n), 0 - 1) \cup {0, numKeys(sib) - 1, parentIndex},
                    Shifted(1, numKeys(n) + 1, 0 - 1) \cup {0, numKeys(sib)})
         ELSE Slots({numKeys(n), 0, parentIndex} \cup Shifted(0, numKeys(sib) - 2, 1),
                    {numKeys(n) + 1, 0} \cup Shifted(0, numKeys(sib) - 1, 1))

\* deleteEntry on a node that is not the root, on heap h: the lookup of the
\* node and its siblings in the parent, then the redistribution or merge
rebalanceSlots(h, node) ==
    LET parent == h.nodes[node].parent
        p == h.nodes[parent]
        nodeIndex == getNodeIndex(h, node)
        leftSibling == p.children[nodeIndex]
        rightSibling == p.children[nodeIndex + 2]
        lookup == Slots({}, 0..nodeIndex
                            \cup (IF nodeIndex > 0 THEN {nodeIndex - 1} ELSE {})
                            \cup (IF nodeIndex < numKeys(p) THEN {nodeIndex + 1} ELSE {}))
    IN  {lookup} \cup
        (IF nodeIndex > 0 /\ numKeys(h.nodes[leftSibling]) > minKeys
         THEN {redistributeSlots(h.nodes[node], h.nodes[leftSibling], nodeIndex - 1, TRUE)}
         ELSE IF nodeIndex < numKeys(p) /\ numKeys(h.nodes[rightSibling]) > minKeys
         THEN {redistributeSlots(h.nodes[node], h.nodes[rightSibling], nodeIndex, FALSE)}
         ELSE IF nodeIndex > 0
         THEN mergeSlots(h.nodes[leftSibling], h.nodes[node], p, nodeIndex - 1)
         ELSE mergeSlots(h.nodes[node], h.nodes[rightSibling], p, nodeIndex))

\* the slots in use in the nodes of a heap
heapSlots(h) ==
    {Slots(0..(numKeys(h.nodes[id]) - 1),
           IF isInternal(h.nodes[id]) THEN 0..numKeys(h.nodes[id]) ELSE {}) :
       id \in DOMAIN h.nodes}

\* remove(key) of a stored key: the search in the leaf, removeAt, every
\* deleteEntry below the root, and the slots in use in the heaps between
\* these steps
removeSlots(key) ==
    LET leaf == findLeaf(tree, key)
        l == nodes[leaf]
        pos == CHOOSE i \in 0..(numKeys(l) - 1) : l.keys[i + 1] = key
        calls == RebalanceCalls(key)
    IN  {Slots(0..pos, {}), removeKeyAtSlots(l, pos)}
        \cup heapSlots(TakenOut(key))
        \cup UNION {rebalanceSlots(c.h, c.node) \cup heapSlots(c.h) : c \in calls}

\* the slots of all steps of all calls of insert on the tree (the slots do
\* not depend on the value inserted)
InsertStepSlots ==
    UNION {insertSlots(k, CHOOSE v \in Vals : TRUE) : k \in Keys}

\* the slots in use before and after every call, and the slots of all steps
\* of all calls of remove on the tree
OtherSlots ==
    heapSlots(tree)
    \cup UNION {heapSlots(insert(tree, k, CHOOSE v \in Vals : TRUE)) : k \in Keys}
    \cup UNION {removeSlots(k) \cup heapSlots(remove(tree, k).h) :
                  k \in {x \in Keys : Stored(x)}}

AllSlots == InsertStepSlots \cup OtherSlots

\* C30 as stated: every key and value slot used has an index of at most
\* maxKeys, and every child slot used has an index below maxKeys + 2.
C30_SlotsAsStated ==
    \A s \in AllSlots :
        /\ s.k \subseteq 0..maxKeys
        /\ s.c \subseteq 0..(maxKeys + 1)

\* C30 (amended): every key and value slot used has an index of at most
\* maxKeys, so no node holds more than maxKeys + 1 keys at any step, and
\* every child slot used has an index of at most maxKeys + 2, below the child
\* capacity maxKeys + 3; index maxKeys + 2 is used only by insertChildAt.
C30_SlotsWithinCapacity ==
    /\ \A s \in AllSlots :
          /\ s.k \subseteq 0..maxKeys
          /\ s.c \subseteq 0..(maxKeys + 2)
    /\ \A k \in Keys, v \in Vals :
          /\ SplitsLeaf(k) => numKeys(OverflowLeaf(k, v)) = maxKeys + 1
          /\ SplitsInternal(k) =>
                numKeys(OverflowParent(k, OverflowLeaf(k, v).keys[splitPoint + 1], 0))
                  = maxKeys + 1
    /\ \A s \in OtherSlots : s.c \subseteq 0..(maxKeys + 1)

\* an insert has run, and a further insert overflows a leaf and its parent,
\* which writes child slot maxKeys + 2
C30_Witness ==
    /\ last.op = "insert"
    /\ \E k \in Keys, v \in Vals :
          /\ SplitsInternal(k)
          /\ \E s \in insertSlots(k, v) : maxKeys + 2 \in s.c

============================================================================
